---- MODULE Spec2Model ----
(***************************************************************************)
(* The witchcraft notification client: the connection driver spawned by    *)
(* Connection::spawn (crates/notifications/src/witchcraft_client.rs), its  *)
(* outbound queue, its inbound channel, and the receiver loop of the       *)
(* notification panel that reads the inbound channel.                      *)
(***************************************************************************)
EXTENDS Integers, Sequences, FiniteSets, TLC

VARIABLES
    pc,          \* position of the driver future: "select", "send_ping", "send_msg", "done", "cancelled"
    exit,        \* which break left the loop ("running" until then)
    taskHandle,  \* TRUE while the caller holds the Task returned by spawn()
    senders,     \* number of live clones of outgoing_tx
    outq,        \* messages queued in the outgoing channel, oldest first
    cur,         \* JSON frame handed to tx.send() and not yet written
    consumer,    \* the MessageStream: "held", "ended" (saw end of stream), "dropped"
    chan,        \* items queued in the message channel, oldest first
    inflight,    \* frames readable from the socket, oldest first
    sockEnd,     \* TRUE once the read half yields None after the readable frames
    now,         \* seconds since the driver started
    deadline,    \* instant at which keepalive_timer completes
    rec,         \* TRUE when the histories below are recorded
    nEnq,        \* history: number of messages accepted by the outgoing channel
    wire,        \* history: JSON frames written to the socket, in order
    nArr,        \* history: number of frames that arrived on the socket
    fwd,         \* history: items the driver put on the message channel, in order
    qAtDrop,     \* history: messages not yet written when the last sender was dropped
    turn         \* history: flips each time the driver takes a frame from the socket

VARIABLES
    token,       \* WitchcraftNotificationClient.token: "None" or the cached access code
    readers,     \* read guards held on the token lock
    connectResult, \* what the last connect() gave its caller ("none" before any call)
    attempt,     \* per caller, its connect task: [st, tok]
    called,      \* history: flips at each call of connect_with_access_code
    credFile,    \* access_code in credentials.json: "None" or a code
    autoPc,      \* the auto-connect closure deferred by NotificationPanel::new
    driver,      \* per caller, the driver its connection spawned: "none", "running", "cancelled", "stopped"
    stream,      \* per caller, the items its driver forwarded and its loop has not read
    loop,        \* per caller, its receiver loop: "none", "running", "ended"
    witchcraft_connecting,
    witchcraft_connected,
    witchcraft_handler_task,  \* "None" or the caller whose Task the panel holds
    witchcraft_sender,        \* "None" or the caller whose sender the panel holds
    witchcraft_notifications, \* the panel's list, in display order
    toasts,      \* history: the toasts shown, in order
    nDeliver     \* history: items put on the panel's streams

driverVars == <<pc, exit, taskHandle, senders, outq, cur, consumer, chan, inflight,
                sockEnd, now, deadline, rec, nEnq, wire, nArr, fwd, qAtDrop, turn>>

clientVars == <<token, readers, connectResult, attempt, called>>

panelVars == <<credFile, autoPc, driver, stream, loop, witchcraft_connecting,
               witchcraft_connected, witchcraft_handler_task, witchcraft_sender,
               witchcraft_notifications, toasts, nDeliver>>

VARIABLES
    state,       \* AuthManager.state: the AuthState
    credentials, \* credentials.json as the AuthManager reads it: no file or its JSON object
    signIns,     \* access-code sign-in tasks spawned and not yet finished
    emitted,     \* history: the AuthEvents emitted since init, in order
    nAuth        \* history: number of calls made on the AuthManager

authVars == <<state, credentials, signIns, emitted, nAuth>>

vars == <<driverVars, clientVars, panelVars, authVars>>

----------------------------------------------------------------------------
(* Bounds of the model. *)

MaxEnq == 2
MaxQueue == 2
MaxFrames == 2
MaxSenders == 2
TickStep == 15
MaxTime == 45
MaxAuth == 3
MaxSignIns == 2

(* const KEEPALIVE_INTERVAL: Duration = Duration::from_secs(30) *)
KEEPALIVE_INTERVAL == 30

----------------------------------------------------------------------------
(* Message protocol. A JSON object is a record keyed by its wire keys.    *)

NotifJson(id) ==
    [id |-> id, title |-> "T", message |-> "M", type |-> "info",
     priority |-> 1, createdAt |-> "c"]

ConnectedJson ==
    [type |-> "connected", userId |-> "u1", timestamp |-> "t", method |-> "realtime"]

NotificationJson == [type |-> "notification", event |-> "e", data |-> NotifJson("abc")]

PongJson == [type |-> "pong"]

(* A NotificationItem on the wire with the given id and title, an event  *)
(* carrying one, and a batch of unread ones.                              *)
NotifJsonTitled(id, title) == [NotifJson(id) EXCEPT !.title = title]

EventJson(n) == [type |-> "notification", event |-> "e", data |-> n]

UnreadJson(batch) ==
    [type |-> "unread_notifications", count |-> Len(batch), notifications |-> batch]

UnknownJson == [type |-> "future_shape", payload |-> "x"]

(* A frame: its opcode, whether the payload is valid UTF-8, whether the   *)
(* text is a JSON document, and the document.                             *)
Frame(op, utf8, parses, json) ==
    [opcode |-> op, utf8 |-> utf8, parses |-> parses, json |-> json]

TextFrame(json) == Frame("Text", TRUE, TRUE, json)
GarbageFrame == Frame("Text", TRUE, FALSE, [type |-> ""])
NonUtf8Frame == Frame("Text", FALSE, FALSE, [type |-> ""])
CloseFrame == Frame("Close", TRUE, FALSE, [type |-> ""])
WsPingFrame == Frame("Ping", TRUE, FALSE, [type |-> ""])
WsPongFrame == Frame("Pong", TRUE, FALSE, [type |-> ""])
BinaryFrame == Frame("Binary", FALSE, FALSE, [type |-> ""])

(* The message the peer may send next: it greets in its first frame,     *)
(* sends an event in its second and batches of unread ones after.         *)
NextMessages ==
    IF ~rec \/ nArr = 0 THEN {ConnectedJson}
    ELSE IF nArr = 1 THEN {NotificationJson}
    ELSE {UnreadJson(<<NotifJson("abc")>>)}

(* The frame the transport may slip in next that is neither text nor     *)
(* close: a ping first, then a pong, then frames of another opcode.       *)
NextTransportFrame ==
    IF ~rec \/ nArr = 1 THEN WsPongFrame
    ELSE IF nArr = 0 THEN WsPingFrame
    ELSE BinaryFrame

(* The frames the peer may send next in this model. *)
InboundFrames ==
    {TextFrame(json) : json \in NextMessages}
        \cup {TextFrame(PongJson), TextFrame(UnknownJson),
               NonUtf8Frame, CloseFrame, NextTransportFrame}

HasKeys(json, keys) == keys \subseteq DOMAIN json

NotifKeys == {"id", "title", "message", "type", "priority", "createdAt"}

(* serde_json::from_str::<WitchcraftMessage>: the "type" key selects the  *)
(* variant (snake_case names), the variant's required keys must be there. *)
DecodeNotif(json) ==
    [id |-> json.id, title |-> json.title, message |-> json.message,
     notification_type |-> json.type, priority |-> json.priority,
     created_at |-> json.createdAt]

(* Mutant: the user id is looked up under its Rust name. *)
DecodeUnrenamed(frame) ==
    LET j == frame.json IN
    IF ~frame.parses \/ ~HasKeys(j, {"type"}) THEN [ok |-> FALSE]
    ELSE IF j.type = "connected" /\ HasKeys(j, {"user_id", "timestamp"})
         THEN [ok |-> TRUE,
               msg |-> [tag |-> "Connected", user_id |-> j.user_id,
                        timestamp |-> j.timestamp,
                        method |-> IF HasKeys(j, {"method"}) THEN j.method ELSE "None"]]
    ELSE IF j.type = "notification" /\ HasKeys(j, {"event", "data"})
            /\ HasKeys(j.data, NotifKeys)
         THEN [ok |-> TRUE,
               msg |-> [tag |-> "Notification", event |-> j.event,
                        data |-> DecodeNotif(j.data)]]
    ELSE IF j.type = "unread_notifications" /\ HasKeys(j, {"count", "notifications"})
            /\ \A k \in 1..Len(j.notifications) : HasKeys(j.notifications[k], NotifKeys)
         THEN [ok |-> TRUE,
               msg |-> [tag |-> "UnreadNotifications", count |-> j.count,
                        notifications |->
                            [k \in 1..Len(j.notifications) |->
                                DecodeNotif(j.notifications[k])]]]
    ELSE IF j.type = "pong" THEN [ok |-> TRUE, msg |-> [tag |-> "Pong"]]
    ELSE [ok |-> FALSE]

Decode(frame) ==
    LET j == frame.json IN
    IF ~frame.parses \/ ~HasKeys(j, {"type"}) THEN [ok |-> FALSE]
    ELSE IF j.type = "connected" /\ HasKeys(j, {"userId", "timestamp"})
         THEN [ok |-> TRUE,
               msg |-> [tag |-> "Connected", user_id |-> j.userId,
                        timestamp |-> j.timestamp,
                        method |-> IF HasKeys(j, {"method"}) THEN j.method ELSE "None"]]
    ELSE IF j.type = "notification" /\ HasKeys(j, {"event", "data"})
            /\ HasKeys(j.data, NotifKeys)
         THEN [ok |-> TRUE,
               msg |-> [tag |-> "Notification", event |-> j.event,
                        data |-> DecodeNotif(j.data)]]
    ELSE IF j.type = "unread_notifications" /\ HasKeys(j, {"count", "notifications"})
            /\ \A k \in 1..Len(j.notifications) : HasKeys(j.notifications[k], NotifKeys)
         THEN [ok |-> TRUE,
               msg |-> [tag |-> "UnreadNotifications", count |-> j.count,
                        notifications |->
                            [k \in 1..Len(j.notifications) |->
                                DecodeNotif(j.notifications[k])]]]
    ELSE IF j.type = "pong" THEN [ok |-> TRUE, msg |-> [tag |-> "Pong"]]
    ELSE [ok |-> FALSE]

(* Items of the message channel: Ok(message) or Err(parse error). *)
OkItem(msg) == [ok |-> TRUE, msg |-> msg]
ErrItem == [ok |-> FALSE, msg |-> [tag |-> "ParseError"]]

(* WitchcraftOutgoingMessage and its serde_json::to_string. *)
MarkRead(id) == [tag |-> "MarkRead", notification_id |-> id]
Ping == [tag |-> "Ping"]

(* Mutant: the field goes out under its Rust name. *)
SerializeUnrenamed(msg) ==
    IF msg.tag = "MarkRead"
    THEN [type |-> "mark_read", notification_id |-> msg.notification_id]
    ELSE [type |-> "ping"]

Serialize(msg) ==
    IF msg.tag = "MarkRead"
    THEN [type |-> "mark_read", notificationId |-> msg.notification_id]
    ELSE [type |-> "ping"]

----------------------------------------------------------------------------
(* State of the driver and of its peers. *)

DriverAlive == pc \in {"select", "send_ping", "send_msg"}

ReceiverAlive == consumer = "held"

TimerReady == now >= deadline

OutgoingReady == outq # <<>> \/ senders = 0

InboundReady == inflight # <<>> \/ sockEnd

Record(log, x) == IF rec THEN Append(log, x) ELSE log

Unsent == Len(outq) + (IF pc = "send_msg" THEN 1 ELSE 0)

Spawned ==
    /\ pc = "select"
    /\ exit = "running"
    /\ taskHandle = TRUE
    /\ senders = 1
    /\ outq = <<>>
    /\ cur = [type |-> ""]
    /\ consumer = "held"
    /\ chan = <<>>
    /\ inflight = <<>>
    /\ sockEnd = FALSE
    /\ now = 0
    /\ deadline = KEEPALIVE_INTERVAL
    /\ nEnq = 0
    /\ wire = <<>>
    /\ nArr = 0
    /\ fwd = <<>>
    /\ qAtDrop = 0
    /\ turn = FALSE

(* The access codes of the model, and Option::None. *)
Tokens == {"t1", "t2"}

NoToken == "None"

(* Who starts a connection: the panel's auto-connect at startup, its      *)
(* Connect button, and a caller of connect() with no access code.         *)
Origins == {"auto", "click"}

Callers == Origins \cup {"api"}

NoAttempt == [st |-> "none", tok |-> NoToken]

(* WitchcraftNotificationClient::new: no cached token, no lock held.      *)
ClientNew ==
    /\ token = NoToken
    /\ readers = 0
    /\ connectResult = "none"
    /\ attempt = [w \in Callers |-> NoAttempt]
    /\ called = FALSE

(* NotificationPanel::new: the fields as constructed, and the auto-connect *)
(* closure deferred.                                                      *)
PanelNew ==
    /\ autoPc = "deferred"
    /\ driver = [w \in Origins |-> "none"]
    /\ stream = [w \in Origins |-> <<>>]
    /\ loop = [w \in Origins |-> "none"]
    /\ witchcraft_connecting = FALSE
    /\ witchcraft_connected = FALSE
    /\ witchcraft_handler_task = "None"
    /\ witchcraft_sender = "None"
    /\ witchcraft_notifications = <<>>
    /\ toasts = <<>>
    /\ nDeliver = 0

(* Option<String>: None is the empty tuple, Some(s) the one-element one. *)
None == <<>>
Some(s) == <<s>>

(* impl Default for AuthState *)
AuthStateDefault ==
    [is_authenticated |-> FALSE, email |-> None, api_key |-> None,
     github_username |-> None, full_name |-> None, avatar_url |-> None]

(* read_to_string and from_str on credentials.json: nothing when there   *)
(* is no file or it is not JSON, else the one object in it.               *)
NoFile == <<>>
File(json) == <<json>>

(* The object save_credentials writes: a None is written as null. *)
CredentialsJson(api_key, email, github_username, full_name, avatar_url) ==
    [api_key |-> api_key, email |-> email, github_username |-> github_username,
     full_name |-> full_name, avatar_url |-> avatar_url]

(* AuthManager::load_credentials: creds[key].as_str() is None for a key   *)
(* that is absent, null or not a string; the state is written only when   *)
(* api_key is a string.                                                   *)
LoadCredentials(st, file) ==
    IF file # NoFile /\ file[1].api_key # None
    THEN [is_authenticated |-> TRUE, api_key |-> file[1].api_key,
          email |-> file[1].email, github_username |-> file[1].github_username,
          full_name |-> file[1].full_name, avatar_url |-> file[1].avatar_url]
    ELSE st

(* The AuthManager before init: no state read yet, nothing on disk. *)
AuthNew ==
    /\ state = AuthStateDefault
    /\ credentials = NoFile
    /\ signIns = 0
    /\ emitted = <<>>
    /\ nAuth = 0

(* The state right after spawn(), every history recorded; the client and  *)
(* the panel are followed in PanelSpec and stay as constructed here.      *)
Init ==
    /\ Spawned /\ rec = TRUE /\ ClientNew /\ PanelNew /\ credFile = NoToken
    /\ AuthNew

(* The same state, with runs that record no history as well: in those the *)
(* callers and the peer may go on for ever.                               *)
InitFair ==
    /\ Spawned /\ rec \in BOOLEAN /\ ClientNew /\ PanelNew /\ credFile = NoToken
    /\ AuthNew

(* The client and the panel as constructed, with or without an access    *)
(* code in the credentials file; the driver of Spec stays as spawned.     *)
PanelInit ==
    /\ Spawned /\ rec = TRUE
    /\ ClientNew /\ PanelNew
    /\ credFile \in {NoToken} \cup Tokens
    /\ AuthNew

----------------------------------------------------------------------------
(* The driver: the future handle_io of Connection::spawn. *)

NoFrame == [type |-> ""]

(* Mutant: the socket halves are borrowed and outlive the future.        *)
ReleaseKeepsHalves ==
    /\ cur' = NoFrame
    /\ outq' = <<>>
    /\ UNCHANGED inflight

(* The future completes or is dropped: message_tx, outgoing_rx and both   *)
(* socket halves go with it, and what they still held is discarded.       *)
Release ==
    /\ cur' = NoFrame
    /\ outq' = <<>>
    /\ inflight' = <<>>

(* Mutant: `continue` where the code has `break`. *)
StopRestarts(reason) ==
    /\ pc' = "select"
    /\ exit' = reason
    /\ Release

(* break: the loop ends and handle_io returns. *)
Stop(reason) ==
    /\ pc' = "done"
    /\ exit' = reason
    /\ Release

(* Mutant: an unbiased select, which may run any ready branch. *)
SelectInboundUnbiased == pc = "select" /\ InboundReady

(* select_biased! polls its branches in the order written and runs the    *)
(* first that is ready: the timer, then outgoing_rx.next(), then rx.next(). *)
SelectTimer == pc = "select" /\ TimerReady

SelectOutgoing == pc = "select" /\ ~TimerReady /\ OutgoingReady

SelectInbound == pc = "select" /\ ~TimerReady /\ ~OutgoingReady /\ InboundReady

(* Mutant: the completed timer is left as it is. *)
RearmTimerStale == deadline

(* keepalive_timer.set(executor.timer(KEEPALIVE_INTERVAL).fuse()) *)
RearmTimer == now + KEEPALIVE_INTERVAL

(* serde_json::to_string of a WitchcraftOutgoingMessage: a unit variant   *)
(* and a variant with one String field, which always serialize.           *)
SerializeFails(msg) == FALSE

(* _ = keepalive_timer => serialize the ping and start tx.send(..).await  *)
TimerBranch ==
    /\ SelectTimer
    /\ IF SerializeFails(Ping)
       THEN /\ deadline' = RearmTimer
            /\ UNCHANGED <<pc, cur>>
       ELSE /\ pc' = "send_ping"
            /\ cur' = Serialize(Ping)
            /\ UNCHANGED deadline
    /\ UNCHANGED <<clientVars, panelVars, authVars>>
    /\ UNCHANGED <<exit, taskHandle, senders, outq, consumer, chan, inflight,
                   sockEnd, now, rec, nEnq, wire, nArr, fwd, qAtDrop, turn>>

(* tx.send(ping) resolves: Err breaks the loop, Ok re-arms the timer.     *)
SendPingDone(ok) ==
    /\ pc = "send_ping"
    /\ IF ok
       THEN /\ wire' = Record(wire, cur)
            /\ deadline' = RearmTimer
            /\ pc' = "select"
            /\ cur' = NoFrame
            /\ UNCHANGED <<exit, outq, inflight>>
       ELSE /\ Stop("ping_send_failed")
            /\ UNCHANGED <<wire, deadline>>
    /\ UNCHANGED <<clientVars, panelVars, authVars>>
    /\ UNCHANGED <<taskHandle, senders, consumer, chan, sockEnd, now,
                   rec, nEnq, nArr, fwd, qAtDrop, turn>>

(* Mutant: the newest queued message is sent first. *)
NewestOutgoing(q) == q[Len(q)]

(* Mutant: None as soon as every sender is dropped, queue drained or not. *)
QueueYieldsNoneEarly == senders = 0

(* outgoing_rx.next() yields the oldest queued message; it yields None   *)
(* only when the queue is drained and every sender has been dropped.      *)
NextOutgoing(q) == Head(q)

QueueYieldsNone == outq = <<>> /\ senders = 0

(* outgoing_msg = outgoing_rx.next(): Some(msg) is serialized and sent,   *)
(* None breaks the loop.                                                  *)
OutgoingBranch ==
    /\ SelectOutgoing
    /\ IF QueueYieldsNone
       THEN Stop("senders_dropped")
       ELSE /\ outq' = Tail(outq)
            /\ IF SerializeFails(NextOutgoing(outq))
               THEN UNCHANGED <<pc, cur>>
               ELSE /\ pc' = "send_msg"
                    /\ cur' = Serialize(NextOutgoing(outq))
            /\ UNCHANGED <<exit, inflight>>
    /\ UNCHANGED <<clientVars, panelVars, authVars>>
    /\ UNCHANGED <<taskHandle, senders, consumer, chan, sockEnd, now,
                   deadline, rec, nEnq, wire, nArr, fwd, qAtDrop, turn>>

(* Mutant: an idle timer, pushed back by every message written. *)
SendMsgDoneRearms(ok) ==
    /\ pc = "send_msg"
    /\ IF ok
       THEN /\ wire' = Record(wire, cur)
            /\ deadline' = RearmTimer
            /\ pc' = "select"
            /\ cur' = NoFrame
            /\ UNCHANGED <<exit, outq, inflight>>
       ELSE /\ Stop("msg_send_failed")
            /\ UNCHANGED <<wire, deadline>>
    /\ UNCHANGED <<clientVars, panelVars, authVars>>
    /\ UNCHANGED <<taskHandle, senders, consumer, chan, sockEnd, now,
                   rec, nEnq, nArr, fwd, qAtDrop, turn>>

(* Mutant: a failed send is logged and the loop goes on. *)
SendMsgDoneContinues(ok) ==
    /\ pc = "send_msg"
    /\ pc' = "select"
    /\ cur' = NoFrame
    /\ wire' = IF ok THEN Record(wire, cur) ELSE wire
    /\ UNCHANGED <<exit, outq, inflight>>
    /\ UNCHANGED <<clientVars, panelVars, authVars>>
    /\ UNCHANGED <<taskHandle, senders, consumer, chan, sockEnd, now,
                   deadline, rec, nEnq, nArr, fwd, qAtDrop, turn>>

(* tx.send(msg) resolves: Err breaks the loop, Ok goes round again.       *)
SendMsgDone(ok) ==
    /\ pc = "send_msg"
    /\ IF ok
       THEN /\ wire' = Record(wire, cur)
            /\ pc' = "select"
            /\ cur' = NoFrame
            /\ UNCHANGED <<exit, outq, inflight>>
       ELSE /\ Stop("msg_send_failed")
            /\ UNCHANGED wire
    /\ UNCHANGED <<clientVars, panelVars, authVars>>
    /\ UNCHANGED <<taskHandle, senders, consumer, chan, sockEnd, now,
                   deadline, rec, nEnq, nArr, fwd, qAtDrop, turn>>

(* The frame branch goes round the loop again without touching the channel. *)
Stay ==
    /\ pc' = "select"
    /\ inflight' = Tail(inflight)
    /\ UNCHANGED <<exit, cur, outq>>

Skip == Stay /\ UNCHANGED <<chan, fwd>>

(* message_tx.unbounded_send(item): Err when the receiver is gone, and    *)
(* then the loop breaks.                                                  *)
(* Mutant: a send on the closed channel is only logged. *)
ForwardIgnoresClosed(item) ==
    IF ReceiverAlive
    THEN /\ chan' = Append(chan, item)
         /\ fwd' = Record(fwd, item)
         /\ Stay
    ELSE /\ Stay
         /\ UNCHANGED <<chan, fwd>>

(* Mutant: the item is put in front of the unread ones. *)
ForwardInFront(item) ==
    IF ReceiverAlive
    THEN /\ chan' = <<item>> \o chan
         /\ fwd' = Record(fwd, item)
         /\ Stay
    ELSE /\ Stop("consumer_gone")
         /\ UNCHANGED <<chan, fwd>>

Forward(item) ==
    IF ReceiverAlive
    THEN /\ chan' = Append(chan, item)
         /\ fwd' = Record(fwd, item)
         /\ Stay
    ELSE /\ Stop("consumer_gone")
         /\ UNCHANGED <<chan, fwd>>

(* Mutant: every decoded message is forwarded, Pong too. *)
OnDecodeOkForwardsAll(msg) == Forward(OkItem(msg))

(* Ok(message): Pong is logged and `continue`s, the rest is forwarded.    *)
OnDecodeOk(msg) == IF msg.tag = "Pong" THEN Skip ELSE Forward(OkItem(msg))

(* Mutant: a frame that does not decode breaks the loop. *)
OnDecodeErrorBreaks == Stop("decode_error") /\ UNCHANGED <<chan, fwd>>

(* Mutant: a frame that does not decode is only logged. *)
OnDecodeErrorSilent == Skip

(* Err(e): logged, and an Err item is sent on the message channel.        *)
OnDecodeError == Forward(ErrItem)

(* Mutant: bytes that are not UTF-8 are reported like a parse error. *)
OnNonUtf8Reported == Forward(ErrItem)

(* Text whose payload is not UTF-8: logged only.                          *)
OnNonUtf8 == Skip

OnText(frame) ==
    IF frame.utf8
    THEN IF Decode(frame).ok THEN OnDecodeOk(Decode(frame).msg) ELSE OnDecodeError
    ELSE OnNonUtf8

(* Mutant: a Close frame is only logged. *)
OnCloseIgnored == Skip

(* OpCode::Close: break. *)
OnClose == Stop("close") /\ UNCHANGED <<chan, fwd>>

(* Mutant: an opcode the driver has no use for breaks the loop. *)
OnOtherOpcodeBreaks == Stop("unexpected_opcode") /\ UNCHANGED <<chan, fwd>>

(* Mutant: a frame of an opcode the driver does not expect is reported   *)
(* on the stream.                                                         *)
OnOtherOpcodeReported == Forward(ErrItem)

(* OpCode::Ping, OpCode::Pong and any other opcode: logged only.          *)
OnOtherOpcode == Skip

HandleFrame(frame) ==
    IF frame.opcode = "Text" THEN OnText(frame)
    ELSE IF frame.opcode = "Close" THEN OnClose
    ELSE OnOtherOpcode

(* frame = rx.next(): None breaks the loop, Some(frame) is dispatched on  *)
(* its opcode.                                                            *)
InboundBranch ==
    /\ SelectInbound
    /\ IF inflight = <<>>
       THEN /\ Stop("socket_ended")
            /\ UNCHANGED <<chan, fwd, turn>>
       ELSE /\ turn' = ~turn
            /\ HandleFrame(Head(inflight))
    /\ UNCHANGED <<clientVars, panelVars, authVars>>
    /\ UNCHANGED <<taskHandle, senders, consumer, sockEnd, now,
                   deadline, rec, nEnq, wire, nArr, qAtDrop>>

DriverStep ==
    \/ TimerBranch
    \/ \E ok \in BOOLEAN : SendPingDone(ok)
    \/ OutgoingBranch
    \/ \E ok \in BOOLEAN : SendMsgDone(ok)
    \/ InboundBranch

----------------------------------------------------------------------------
(* The caller of spawn(): the three artifacts it holds. *)

(* Mutant: the background task is detached and the handle owns nothing.  *)
BackgroundDetached == FALSE

(* The foreground task returned by spawn() awaits the background task, so *)
(* it owns it: the driver lives exactly as long as the returned handle.   *)
ForegroundAwaitsBackground == TRUE

(* The driver future is dropped where it is suspended. *)
Cancel ==
    /\ pc' = "cancelled"
    /\ exit' = "cancelled"
    /\ Release

(* The caller drops the Task while the driver runs: a dropped Task       *)
(* cancels the future it runs.                                            *)
DropTaskHandle ==
    /\ taskHandle
    /\ DriverAlive
    /\ taskHandle' = FALSE
    /\ IF ForegroundAwaitsBackground
       THEN Cancel
       ELSE UNCHANGED <<pc, exit, cur, outq, inflight>>
    /\ UNCHANGED <<clientVars, panelVars, authVars>>
    /\ UNCHANGED <<senders, consumer, chan, sockEnd, now, deadline,
                   rec, nEnq, wire, nArr, fwd, qAtDrop, turn>>

(* The k-th message a caller queues marks notification k as read.         *)
NextMessage == MarkRead(IF rec THEN ToString(nEnq + 1) ELSE "0")

(* The histories are finite: recorded runs queue at most MaxEnq messages, *)
(* unrecorded runs keep at most MaxQueue of them queued.                  *)
EnqueueInBounds == IF rec THEN nEnq < MaxEnq ELSE Len(outq) < MaxQueue

(* Mutant: a rendezvous channel, which takes a message only when the     *)
(* queue is empty.                                                        *)
EnqueueWhenDrained ==
    /\ senders > 0
    /\ EnqueueInBounds
    /\ outq = <<>>
    /\ IF DriverAlive
       THEN /\ outq' = Append(outq, NextMessage)
            /\ nEnq' = IF rec THEN nEnq + 1 ELSE nEnq
       ELSE UNCHANGED <<outq, nEnq>>
    /\ UNCHANGED <<clientVars, panelVars, authVars>>
    /\ UNCHANGED <<pc, exit, taskHandle, senders, cur, consumer, chan, inflight,
                   sockEnd, now, deadline, rec, wire, nArr, fwd,
                   qAtDrop, turn>>

(* outgoing_tx.unbounded_send(msg): queues the message and returns; with  *)
(* the receiver gone it returns Err and queues nothing.                   *)
Enqueue ==
    /\ senders > 0
    /\ EnqueueInBounds
    /\ IF DriverAlive
       THEN /\ outq' = Append(outq, NextMessage)
            /\ nEnq' = IF rec THEN nEnq + 1 ELSE nEnq
       ELSE UNCHANGED <<outq, nEnq>>
    /\ UNCHANGED <<clientVars, panelVars, authVars>>
    /\ UNCHANGED <<pc, exit, taskHandle, senders, cur, consumer, chan, inflight,
                   sockEnd, now, deadline, rec, wire, nArr, fwd,
                   qAtDrop, turn>>

(* outgoing_tx.clone(), while there is a driver to send for. *)
CloneSender ==
    /\ DriverAlive
    /\ senders > 0
    /\ senders < MaxSenders
    /\ senders' = senders + 1
    /\ UNCHANGED <<clientVars, panelVars, authVars>>
    /\ UNCHANGED <<pc, exit, taskHandle, outq, cur, consumer, chan, inflight,
                   sockEnd, now, deadline, rec, nEnq, wire, nArr,
                   fwd, qAtDrop, turn>>

(* drop(outgoing_tx), while there is a driver to notice. *)
DropSender ==
    /\ DriverAlive
    /\ senders > 0
    /\ senders' = senders - 1
    /\ qAtDrop' = IF senders = 1 /\ rec THEN Unsent ELSE qAtDrop
    /\ UNCHANGED <<clientVars, panelVars, authVars>>
    /\ UNCHANGED <<pc, exit, taskHandle, outq, cur, consumer, chan, inflight,
                   sockEnd, now, deadline, rec, nEnq, wire, nArr,
                   fwd, turn>>

----------------------------------------------------------------------------
(* The consumer of the MessageStream: the panel's receiver loop           *)
(* `while let Some(message_result) = messages.next().await`.              *)

(* Some(item): Ok(message) updates the panel, Err(e) is logged; either    *)
(* way the loop reads on.                                                 *)
ConsumerRecv ==
    /\ consumer = "held"
    /\ chan # <<>>
    /\ chan' = Tail(chan)
    /\ UNCHANGED <<clientVars, panelVars, authVars>>
    /\ UNCHANGED <<pc, exit, taskHandle, senders, outq, cur, consumer, inflight,
                   sockEnd, now, deadline, rec, nEnq, wire, nArr,
                   fwd, qAtDrop, turn>>

(* Mutant: the stream ends with its sender, read or not. *)
ConsumerEndEarly ==
    /\ consumer = "held"
    /\ ~DriverAlive
    /\ consumer' = "ended"
    /\ UNCHANGED <<clientVars, panelVars, authVars>>
    /\ UNCHANGED <<pc, exit, taskHandle, senders, outq, cur, chan, inflight,
                   sockEnd, now, deadline, rec, nEnq, wire, nArr,
                   fwd, qAtDrop, turn>>

(* None: the channel is empty and message_tx is gone; the loop ends.      *)
ConsumerEnd ==
    /\ consumer = "held"
    /\ chan = <<>>
    /\ ~DriverAlive
    /\ consumer' = "ended"
    /\ UNCHANGED <<clientVars, panelVars, authVars>>
    /\ UNCHANGED <<pc, exit, taskHandle, senders, outq, cur, chan, inflight,
                   sockEnd, now, deadline, rec, nEnq, wire, nArr,
                   fwd, qAtDrop, turn>>

(* Mutant: dropping the stream ends the driver there and then. *)
DropConsumerStopsDriver ==
    /\ consumer = "held"
    /\ consumer' = "dropped"
    /\ chan' = <<>>
    /\ IF DriverAlive
       THEN Stop("consumer_gone")
       ELSE UNCHANGED <<pc, exit, cur, outq, inflight>>
    /\ UNCHANGED <<clientVars, panelVars, authVars>>
    /\ UNCHANGED <<taskHandle, senders, sockEnd, now, deadline, rec, nEnq,
                   wire, nArr, fwd, qAtDrop, turn>>

(* The stream is dropped unread. *)
DropConsumer ==
    /\ consumer = "held"
    /\ consumer' = "dropped"
    /\ chan' = <<>>
    /\ UNCHANGED <<clientVars, panelVars, authVars>>
    /\ UNCHANGED <<pc, exit, taskHandle, senders, outq, cur, inflight,
                   sockEnd, now, deadline, rec, nEnq, wire, nArr,
                   fwd, qAtDrop, turn>>

----------------------------------------------------------------------------
(* The peer, the socket and the clock. *)

(* The histories are finite: recorded runs see at most MaxFrames frames, *)
(* unrecorded runs keep at most MaxQueue items unread in the channel.     *)
ArriveInBounds == IF rec THEN nArr < MaxFrames ELSE Len(chan) < MaxQueue

(* The next frame from the peer becomes readable once the driver has     *)
(* taken the one before.                                                  *)
Arrive(frame) ==
    /\ DriverAlive
    /\ ~sockEnd
    /\ inflight = <<>>
    /\ ArriveInBounds
    /\ inflight' = Append(inflight, frame)
    /\ nArr' = IF rec THEN nArr + 1 ELSE nArr
    /\ UNCHANGED <<clientVars, panelVars, authVars>>
    /\ UNCHANGED <<pc, exit, taskHandle, senders, outq, cur, consumer, chan,
                   sockEnd, now, deadline, rec, nEnq, wire,
                   fwd, qAtDrop, turn>>

(* The read half ends without a Close frame. *)
SocketEnd ==
    /\ DriverAlive
    /\ ~sockEnd
    /\ sockEnd' = TRUE
    /\ UNCHANGED <<clientVars, panelVars, authVars>>
    /\ UNCHANGED <<pc, exit, taskHandle, senders, outq, cur, consumer, chan,
                   inflight, now, deadline, rec, nEnq, wire, nArr,
                   fwd, qAtDrop, turn>>

(* The clock the keepalive timer runs on, while there is a driver.        *)
Tick ==
    /\ DriverAlive
    /\ now + TickStep <= MaxTime
    /\ now' = now + TickStep
    /\ UNCHANGED <<clientVars, panelVars, authVars>>
    /\ UNCHANGED <<pc, exit, taskHandle, senders, outq, cur, consumer, chan,
                   inflight, sockEnd, deadline, rec, nEnq, wire,
                   nArr, fwd, qAtDrop, turn>>

----------------------------------------------------------------------------
(* The client: WitchcraftNotificationClient and its credential slot.      *)

MaxDeliver == 2

(* Every caller of the client holds &App, so the calls run one at a time  *)
(* on the foreground thread; a call that waits for the lock stops it.     *)
MainThreadFree == connectResult # "blocked"

(* RwLock::write() returns once no guard is held on the lock.             *)
WriteLockFree(held) == held = 0

(* Mutant: the slot keeps the first code it was given. *)
StoreTokenIfEmpty(t) == IF token = NoToken THEN t ELSE token

(* *self.token.write() = Some(access_code.clone()) *)
StoreToken(t) == t

(* Mutant: an attempt that starts dialing with no code in its URL. *)
DialAnonymous(t) == [st |-> "dialing", tok |-> NoToken]

(* The connect task spawned on Tokio: it owns the access code it was     *)
(* called with and formats the URL from it.                               *)
Dial(t) == [st |-> "dialing", tok |-> t]

(* connect_with_access_code(access_code, cx) called by `who`, with `held` *)
(* guards on the lock: store the code, spawn the connect task, return it. *)
ConnectWithAccessCode(who, t, held) ==
    /\ WriteLockFree(held)
    /\ token' = StoreToken(t)
    /\ attempt' = [attempt EXCEPT ![who] = Dial(t)]
    /\ called' = ~called

(* Mutant: connect() with nothing cached dials all the same. *)
ConnectNoTokenDials ==
    /\ connectResult' = "task"
    /\ attempt' = [attempt EXCEPT !["api"] = Dial(NoToken)]
    /\ UNCHANGED <<token, readers, called>>

(* connect() with nothing cached: Err("No access code provided...").      *)
ConnectNoToken ==
    /\ connectResult' = "no_credential"
    /\ UNCHANGED <<token, readers, attempt, called>>

(* connect(): token_guard = self.token.read() is held until the function  *)
(* returns, across the call of connect_with_access_code and its write().  *)
Connect ==
    /\ MainThreadFree
    /\ LET held == readers + 1 IN
       IF token = NoToken
       THEN ConnectNoToken
       ELSE IF WriteLockFree(held)
            THEN /\ ConnectWithAccessCode("api", token, held)
                 /\ connectResult' = "task"
                 /\ UNCHANGED readers
            ELSE /\ connectResult' = "blocked"
                 /\ readers' = held
                 /\ UNCHANGED <<token, attempt, called>>
    /\ UNCHANGED <<driverVars, panelVars, authVars>>

(* Mutant: a failed handshake rolls the slot back. *)
HandshakeDoneClearsSlot(who, ok) ==
    /\ attempt[who].st = "dialing"
    /\ attempt' = [attempt EXCEPT
                     ![who].st = IF ok THEN "resolved_ok" ELSE "resolved_err"]
    /\ token' = IF ok THEN token ELSE NoToken
    /\ UNCHANGED <<readers, connectResult, called>>
    /\ UNCHANGED <<driverVars, panelVars, authVars>>

(* WebSocket::connect(ws_url.parse()?).await? resolves on Tokio:          *)
(* Ok(Connection::new(ws)), or the parse or handshake error.              *)
HandshakeDone(who, ok) ==
    /\ attempt[who].st = "dialing"
    /\ attempt' = [attempt EXCEPT
                     ![who].st = IF ok THEN "resolved_ok" ELSE "resolved_err"]
    /\ UNCHANGED <<token, readers, connectResult, called>>
    /\ UNCHANGED <<driverVars, panelVars, authVars>>

----------------------------------------------------------------------------
(* The panel: NotificationPanel's auto-connect, its Connect button and    *)
(* its receiver loops. Of each driver it sees what Spec shows a consumer: *)
(* the items forwarded, then the end of the stream.                       *)

(* The credential store, an external collaborator: a sign-in writes the  *)
(* next access code to credentials.json.                                  *)
NextCode == IF credFile = NoToken THEN "t1" ELSE "t2"

WriteCredentials(c) ==
    /\ credFile # "t2"
    /\ c = NextCode
    /\ credFile' = c
    /\ UNCHANGED <<autoPc, driver, stream, loop, witchcraft_connecting,
                   witchcraft_connected, witchcraft_handler_task,
                   witchcraft_sender, witchcraft_notifications, toasts, nDeliver>>
    /\ UNCHANGED <<driverVars, clientVars, authVars>>

(* connect_with_access_code always returns Ok(task).                      *)
ConnectCallFails == FALSE

(* cx.defer(..) of NotificationPanel::new: with an access code in the     *)
(* file, set the loading flag and start the connection.                   *)
AutoConnect ==
    /\ MainThreadFree
    /\ autoPc = "deferred"
    /\ IF credFile = NoToken
       THEN /\ autoPc' = "skipped"
            /\ UNCHANGED <<witchcraft_connecting, token, attempt, called>>
       ELSE /\ ConnectWithAccessCode("auto", credFile, readers)
            /\ witchcraft_connecting' = ~ConnectCallFails
            /\ autoPc' = "started"
    /\ UNCHANGED <<readers, connectResult>>
    /\ UNCHANGED <<credFile, driver, stream, loop, witchcraft_connected,
                   witchcraft_handler_task, witchcraft_sender,
                   witchcraft_notifications, toasts, nDeliver>>
    /\ UNCHANGED <<driverVars, authVars>>

(* render(): the Connect button is there when neither flag is set.        *)
show_witchcraft_connect == ~witchcraft_connected /\ ~witchcraft_connecting

(* One connection of the button is followed at a time: a click counts    *)
(* when the one before failed or its receiver loop has ended.             *)
ClickInBounds ==
    \/ attempt["click"].st \in {"none", "failed"}
    \/ attempt["click"].st = "spawned" /\ loop["click"] = "ended"

(* on_click of connect_witchcraft_button, which is rendered once the     *)
(* deferred closure of new() has run: without an access code log and      *)
(* return, with one start the connection.                                 *)
ClickConnect ==
    /\ MainThreadFree
    /\ autoPc # "deferred"
    /\ show_witchcraft_connect
    /\ ClickInBounds
    /\ IF credFile = NoToken
       THEN UNCHANGED <<token, attempt, called>>
       ELSE ConnectWithAccessCode("click", credFile, readers)
    /\ UNCHANGED <<readers, connectResult>>
    /\ UNCHANGED panelVars
    /\ UNCHANGED <<driverVars, authVars>>

(* Mutant: the handle held before is kept elsewhere and its driver runs on. *)
ReplaceHandleKeepsOld(who) ==
    [w \in Origins |-> IF w = who THEN "running" ELSE driver[w]]

(* Storing Some(task) drops the Task held before, which cancels its      *)
(* driver if that one still runs.                                         *)
ReplaceHandle(who) ==
    [w \in Origins |->
        IF w = who THEN "running"
        ELSE IF w = witchcraft_handler_task /\ driver[w] = "running" THEN "cancelled"
        ELSE driver[w]]

(* Ok(connection): connection.spawn(cx), keep the sender and the task,    *)
(* start the receiver loop; auto-connect also clears the loading flag.    *)
OnConnected(who) ==
    /\ MainThreadFree
    /\ attempt[who].st = "resolved_ok"
    /\ attempt' = [attempt EXCEPT ![who].st = "spawned"]
    /\ driver' = ReplaceHandle(who)
    /\ stream' = [stream EXCEPT ![who] = <<>>]
    /\ loop' = [loop EXCEPT ![who] = "running"]
    /\ witchcraft_handler_task' = who
    /\ witchcraft_sender' = who
    /\ witchcraft_connecting' = IF who = "auto" THEN FALSE ELSE witchcraft_connecting
    /\ UNCHANGED <<token, readers, connectResult, called>>
    /\ UNCHANGED <<credFile, autoPc, witchcraft_connected,
                   witchcraft_notifications, toasts, nDeliver>>
    /\ UNCHANGED <<driverVars, authVars>>

(* Mutant: a failed attempt is dialed again. *)
OnConnectFailedRetries(who) ==
    /\ MainThreadFree
    /\ attempt[who].st = "resolved_err"
    /\ attempt' = [attempt EXCEPT ![who].st = "dialing"]
    /\ UNCHANGED <<token, readers, connectResult, called>>
    /\ UNCHANGED panelVars
    /\ UNCHANGED <<driverVars, authVars>>

(* Mutant: the failure is logged and the loading flag left as it is. *)
OnConnectFailedKeepsLoading(who) ==
    /\ MainThreadFree
    /\ attempt[who].st = "resolved_err"
    /\ attempt' = [attempt EXCEPT ![who].st = "failed"]
    /\ UNCHANGED <<token, readers, connectResult, called>>
    /\ UNCHANGED panelVars
    /\ UNCHANGED <<driverVars, authVars>>

(* Err(e): logged; auto-connect also clears the loading flag.             *)
OnConnectFailed(who) ==
    /\ MainThreadFree
    /\ attempt[who].st = "resolved_err"
    /\ attempt' = [attempt EXCEPT ![who].st = "failed"]
    /\ witchcraft_connecting' = IF who = "auto" THEN FALSE ELSE witchcraft_connecting
    /\ UNCHANGED <<token, readers, connectResult, called>>
    /\ UNCHANGED <<credFile, autoPc, driver, stream, loop, witchcraft_connected,
                   witchcraft_handler_task, witchcraft_sender,
                   witchcraft_notifications, toasts, nDeliver>>
    /\ UNCHANGED <<driverVars, authVars>>

(* The frames a peer sends to a panel in this model: ids "a" and "b",     *)
(* "a" also under another title, alone and in batches.                    *)
PanelFrames ==
    {TextFrame(ConnectedJson),
     TextFrame(EventJson(NotifJsonTitled("a", "U"))),
     TextFrame(EventJson(NotifJsonTitled("b", "T"))),
     TextFrame(UnreadJson(<<NotifJsonTitled("a", "T"), NotifJsonTitled("a", "U")>>)),
     TextFrame(UnreadJson(<<NotifJsonTitled("b", "T"), NotifJsonTitled("a", "T")>>))}

(* What the driver puts on the message channel for a text frame it takes *)
(* while the receiver is there: Ok(message) or Err(parse error).          *)
ForwardedItem(frame) ==
    IF Decode(frame).ok THEN OkItem(Decode(frame).msg) ELSE ErrItem

(* A running driver takes a frame and forwards its item. *)
Deliver(who, frame) ==
    /\ driver[who] = "running"
    /\ nDeliver < MaxDeliver
    /\ nDeliver' = nDeliver + 1
    /\ stream' = [stream EXCEPT ![who] = Append(@, ForwardedItem(frame))]
    /\ UNCHANGED <<credFile, autoPc, driver, loop, witchcraft_connecting,
                   witchcraft_connected, witchcraft_handler_task,
                   witchcraft_sender, witchcraft_notifications, toasts>>
    /\ UNCHANGED <<driverVars, clientVars, authVars>>

(* A running driver leaves its loop on one of its breaks. *)
DriverStops(who) ==
    /\ driver[who] = "running"
    /\ driver' = [driver EXCEPT ![who] = "stopped"]
    /\ UNCHANGED <<credFile, autoPc, stream, loop, witchcraft_connecting,
                   witchcraft_connected, witchcraft_handler_task,
                   witchcraft_sender, witchcraft_notifications, toasts, nDeliver>>
    /\ UNCHANGED <<driverVars, clientVars, authVars>>

(* this.witchcraft_notifications.iter().any(|n| n.id == id) *)
HasId(list, id) == \E k \in 1..Len(list) : list[k].id = id

(* Mutant: push without looking at the list. *)
PushAlways(list, notif) == Append(list, notif)

(* Mutant: a delivery with a known id replaces the item in the list. *)
PushReplaces(list, notif) ==
    IF HasId(list, notif.id)
    THEN [k \in 1..Len(list) |-> IF list[k].id = notif.id THEN notif ELSE list[k]]
    ELSE Append(list, notif)

(* if !any(..) { this.witchcraft_notifications.push(notif) } *)
PushNew(list, notif) == IF HasId(list, notif.id) THEN list ELSE Append(list, notif)

(* for notif in notifications { push if new } *)
RECURSIVE PushUnread(_, _)
PushUnread(list, batch) ==
    IF batch = <<>> THEN list
    ELSE PushUnread(PushNew(list, Head(batch)), Tail(batch))

(* workspace.show_toast(Toast::new(.., format!("{}: {}", title, message))) *)
Toast(notif) == [id |-> notif.id, text |-> <<notif.title, ": ", notif.message>>]

(* Mutant: every Notification event shows a toast, known id or not. *)
OnMessageToastsAlways(msg) ==
    CASE msg.tag = "Connected" ->
            /\ witchcraft_connected' = TRUE
            /\ UNCHANGED <<witchcraft_notifications, toasts>>
      [] msg.tag = "UnreadNotifications" ->
            /\ witchcraft_notifications' =
                    PushUnread(witchcraft_notifications, msg.notifications)
            /\ UNCHANGED <<witchcraft_connected, toasts>>
      [] msg.tag = "Notification" ->
            /\ witchcraft_notifications' = PushNew(witchcraft_notifications, msg.data)
            /\ toasts' = Append(toasts, Toast(msg.data))
            /\ UNCHANGED witchcraft_connected
      [] OTHER -> UNCHANGED <<witchcraft_connected, witchcraft_notifications, toasts>>

(* entity.update(cx, |this, cx| match message { .. }) of a receiver loop. *)
OnMessage(msg) ==
    CASE msg.tag = "Connected" ->
            /\ witchcraft_connected' = TRUE
            /\ UNCHANGED <<witchcraft_notifications, toasts>>
      [] msg.tag = "UnreadNotifications" ->
            /\ witchcraft_notifications' =
                    PushUnread(witchcraft_notifications, msg.notifications)
            /\ UNCHANGED <<witchcraft_connected, toasts>>
      [] msg.tag = "Notification" ->
            /\ witchcraft_notifications' = PushNew(witchcraft_notifications, msg.data)
            /\ toasts' = IF HasId(witchcraft_notifications, msg.data.id) THEN toasts
                         ELSE Append(toasts, Toast(msg.data))
            /\ UNCHANGED witchcraft_connected
      [] OTHER -> UNCHANGED <<witchcraft_connected, witchcraft_notifications, toasts>>

(* while let Some(message_result) = messages.next().await: Ok(message)    *)
(* updates the panel, Err(e) is logged.                                   *)
LoopRecv(who) ==
    /\ MainThreadFree
    /\ loop[who] = "running"
    /\ stream[who] # <<>>
    /\ stream' = [stream EXCEPT ![who] = Tail(@)]
    /\ IF Head(stream[who]).ok
       THEN OnMessage(Head(stream[who]).msg)
       ELSE UNCHANGED <<witchcraft_connected, witchcraft_notifications, toasts>>
    /\ UNCHANGED <<credFile, autoPc, driver, loop, witchcraft_connecting,
                   witchcraft_handler_task, witchcraft_sender, nDeliver>>
    /\ UNCHANGED <<driverVars, clientVars, authVars>>

(* Mutant: the end of the stream marks the panel disconnected. *)
LoopEndDisconnects(who) ==
    /\ MainThreadFree
    /\ loop[who] = "running"
    /\ stream[who] = <<>>
    /\ driver[who] \in {"stopped", "cancelled"}
    /\ loop' = [loop EXCEPT ![who] = "ended"]
    /\ witchcraft_connected' = FALSE
    /\ UNCHANGED <<credFile, autoPc, driver, stream, witchcraft_connecting,
                   witchcraft_handler_task, witchcraft_sender,
                   witchcraft_notifications, toasts, nDeliver>>
    /\ UNCHANGED <<driverVars, clientVars, authVars>>

(* None: the stream is drained and its driver is gone; the loop ends.     *)
LoopEnd(who) ==
    /\ MainThreadFree
    /\ loop[who] = "running"
    /\ stream[who] = <<>>
    /\ driver[who] \in {"stopped", "cancelled"}
    /\ loop' = [loop EXCEPT ![who] = "ended"]
    /\ UNCHANGED <<credFile, autoPc, driver, stream, witchcraft_connecting,
                   witchcraft_connected, witchcraft_handler_task,
                   witchcraft_sender, witchcraft_notifications, toasts, nDeliver>>
    /\ UNCHANGED <<driverVars, clientVars, authVars>>

PanelNext ==
    \/ Connect
    \/ \E who \in Origins : \E ok \in BOOLEAN : HandshakeDone(who, ok)
    \/ \E c \in Tokens : WriteCredentials(c)
    \/ AutoConnect
    \/ ClickConnect
    \/ \E who \in Origins : OnConnected(who)
    \/ \E who \in Origins : OnConnectFailed(who)
    \/ \E who \in Origins : \E frame \in PanelFrames : Deliver(who, frame)
    \/ \E who \in Origins : DriverStops(who)
    \/ \E who \in Origins : LoopRecv(who)
    \/ \E who \in Origins : LoopEnd(who)

(* The client and the panel, from construction on. *)
PanelSpec == PanelInit /\ [][PanelNext]_vars

----------------------------------------------------------------------------

Next ==
    \/ TimerBranch
    \/ \E ok \in BOOLEAN : SendPingDone(ok)
    \/ OutgoingBranch
    \/ \E ok \in BOOLEAN : SendMsgDone(ok)
    \/ InboundBranch
    \/ DropTaskHandle
    \/ Enqueue
    \/ CloneSender
    \/ DropSender
    \/ ConsumerRecv
    \/ ConsumerEnd
    \/ DropConsumer
    \/ \E frame \in InboundFrames : Arrive(frame)
    \/ SocketEnd
    \/ Tick

Spec == Init /\ [][Next]_vars

(* The executor polls the driver whenever it is woken, and a pending     *)
(* socket write resolves one way or the other.                            *)
FairSpec == InitFair /\ [][Next]_vars /\ WF_vars(DriverStep)

(* The same, and a branch of the select that is ready again and again is  *)
(* run in the end: the most a scheduler can promise the loop.             *)
StrongFairSpec ==
    /\ InitFair
    /\ [][Next]_vars
    /\ WF_vars(DriverStep)
    /\ SF_vars(TimerBranch)
    /\ SF_vars(OutgoingBranch)
    /\ SF_vars(InboundBranch)

----------------------------------------------------------------------------
(* The AuthManager (crates/zed/src/zed/auth_manager.rs). *)

(* enum AuthEvent; the text of an AuthError is kept as its pieces. *)
SignedIn == [type |-> "SignedIn", msg |-> <<>>]
SignedOut == [type |-> "SignedOut", msg |-> <<>>]
AuthError(msg) == [type |-> "AuthError", msg |-> msg]

(* const WITCHCRAFT_WEB_URL, const OAUTH_CALLBACK_SCHEME *)
WITCHCRAFT_WEB_URL == "https://witchcraft.insanelabs.org"
OAUTH_CALLBACK_SCHEME == << <<"witchcraft://">> >>

(* str::trim on a string given as its characters. *)
RECURSIVE TrimStart(_)
TrimStart(s) == IF s # <<>> /\ Head(s) = " " THEN TrimStart(Tail(s)) ELSE s

RECURSIVE TrimEnd(_)
TrimEnd(s) ==
    IF s # <<>> /\ s[Len(s)] = " " THEN TrimEnd(SubSeq(s, 1, Len(s) - 1)) ELSE s

Trim(s) == TrimEnd(TrimStart(s))

(* The access codes pasted into the editor: empty, blank, and a code     *)
(* with blanks around it.                                                 *)
AccessCodes == {<<>>, <<" ", " ">>, <<" ", "c", " ">>}

(* What the access-code endpoint can answer. send and read are the       *)
(* results of http.send and read_to_end, status the HTTP status, parsed   *)
(* says whether the body is JSON, and user holds json["user"][key]        *)
(* .as_str() for each key, None when absent, null or not a string.        *)
User(id, email, github_username, full_name, avatar_url) ==
    [id |-> id, email |-> email, github_username |-> github_username,
     full_name |-> full_name, avatar_url |-> avatar_url]

Response(send, read, status, parsed, user) ==
    [send |-> send, read |-> read, status |-> status, parsed |-> parsed,
     user |-> user]

NoUser == User(None, None, None, None, None)
User1 == User(Some("k1"), Some("e1"), None, Some("f1"), Some("a1"))
User2 == User(Some("k2"), None, Some("g2"), None, None)

Responses ==
    { Response("err", "ok", 200, TRUE, User1),
      Response("ok", "err", 200, TRUE, User1),
      Response("ok", "ok", 401, TRUE, User1),
      Response("ok", "ok", 200, FALSE, User1),
      Response("ok", "ok", 200, TRUE, NoUser),
      Response("ok", "ok", 200, TRUE, User(Some(""), Some("e1"), None, None, None)),
      Response("ok", "ok", 200, TRUE, User1),
      Response("ok", "ok", 200, TRUE, User2) }

(* StatusCode::is_success *)
IsSuccess(status) == status >= 200 /\ status <= 299

(* A callback URL as its pieces: the scheme, the path, "?" and the        *)
(* key-value pairs of the query.                                          *)
Url(path, query) == OAUTH_CALLBACK_SCHEME \o <<path>> \o query

CallbackUrls ==
    { Url(<<"auth/success">>, << <<"?">>, <<"api_key", "k3">>, <<"email", "e3">> >>),
      Url(<<"auth/success">>, << <<"?">>, <<"api_key", "">> >>),
      Url(<<"auth/success">>, << <<"?">>, <<"email", "e3">> >>),
      Url(<<"auth/success">>, <<>>),
      Url(<<"auth/error">>, << <<"?">>, <<"error", "denied">>, <<"api_key", "k3">> >>),
      Url(<<"auth/error">>, <<>>),
      Url(<<"settings">>, << <<"?">>, <<"api_key", "k3">> >>) }

(* str::starts_with *)
StartsWith(url, prefix) ==
    Len(prefix) <= Len(url) /\ SubSeq(url, 1, Len(prefix)) = prefix

(* url.find('?'): the place of the first "?", if any. *)
Find(url, piece) ==
    LET at == {i \in 1..Len(url) : url[i] = piece}
    IN  IF at = {} THEN None
        ELSE Some(CHOOSE i \in at : \A j \in at : i <= j)

(* form_urlencoded::parse(query).collect() into a HashMap: of two pairs   *)
(* with one key the later one stays.                                      *)
ParseQuery(query) ==
    LET pairs == {i \in 1..Len(query) : Len(query[i]) = 2}
        last(k) == CHOOSE i \in pairs :
                       /\ query[i][1] = k
                       /\ \A j \in pairs : query[j][1] = k => j <= i
    IN  [k \in {query[i][1] : i \in pairs} |-> query[last(k)][2]]

(* HashMap::get(key).cloned() *)
Get(params, key) == IF key \in DOMAIN params THEN Some(params[key]) ELSE None

(* &url[query_start + 1..] *)
QueryOf(url) == SubSeq(url, Find(url, <<"?">>)[1] + 1, Len(url))

(* AuthManager::save_credentials: the file is replaced by the new object, *)
(* or left as it was when the directory or the file cannot be written.    *)
SaveCredentials(file, written, json) == IF written THEN File(json) ELSE file

Emit(event) == emitted' = Append(emitted, event)

(* AuthManager::init: a new entity with the default state, then           *)
(* load_credentials. The tasks and the events of an entity that was there *)
(* before are gone with it.                                               *)
AuthInit ==
    /\ nAuth < MaxAuth
    /\ nAuth' = nAuth + 1
    /\ state' = LoadCredentials(AuthStateDefault, credentials)
    /\ signIns' = 0
    /\ emitted' = <<>>
    /\ UNCHANGED credentials
    /\ UNCHANGED <<driverVars, clientVars, panelVars>>

(* AuthManager::sign_in: open::that(oauth_url) fails or not. *)
SignIn(opened) ==
    /\ nAuth < MaxAuth
    /\ nAuth' = nAuth + 1
    /\ IF opened
       THEN UNCHANGED emitted
       ELSE Emit(AuthError(<<"Could not open browser. Please visit: ",
                             WITCHCRAFT_WEB_URL, "/auth/editor">>))
    /\ UNCHANGED <<state, credentials, signIns>>
    /\ UNCHANGED <<driverVars, clientVars, panelVars>>

(* AuthManager::sign_in_with_access_code up to cx.spawn(..).detach(). *)
SignInWithAccessCode(access_code) ==
    /\ nAuth < MaxAuth
    /\ nAuth' = nAuth + 1
    /\ IF Trim(access_code) = <<>>
       THEN /\ Emit(AuthError(<<"Access code cannot be empty">>))
            /\ UNCHANGED signIns
       ELSE /\ signIns < MaxSignIns
            /\ signIns' = signIns + 1
            /\ UNCHANGED emitted
    /\ UNCHANGED <<state, credentials>>
    /\ UNCHANGED <<driverVars, clientVars, panelVars>>

(* The task spawned by sign_in_with_access_code, from http.send to its    *)
(* end, with the answer of the endpoint.                                  *)
AccessCodeDone(response, written) ==
    /\ signIns > 0
    /\ signIns' = signIns - 1
    /\ IF response.send = "err"
       THEN /\ Emit(AuthError(<<"Failed to contact access code endpoint">>))
            /\ UNCHANGED <<state, credentials>>
       ELSE IF response.read = "err"
       THEN /\ Emit(AuthError(<<"Failed to read access code response">>))
            /\ UNCHANGED <<state, credentials>>
       ELSE IF ~IsSuccess(response.status)
       THEN /\ Emit(AuthError(<<"Invalid or revoked access code">>))
            /\ UNCHANGED <<state, credentials>>
       ELSE IF ~response.parsed
       THEN /\ Emit(AuthError(<<"Invalid response from access code endpoint">>))
            /\ UNCHANGED <<state, credentials>>
       ELSE LET user == response.user
                api_key == IF user.id = None THEN "" ELSE user.id[1]
            IN  IF api_key = ""
                THEN /\ Emit(AuthError(<<"Invalid response from access code endpoint">>))
                     /\ UNCHANGED <<state, credentials>>
                ELSE /\ credentials' =
                            SaveCredentials(credentials, written,
                                CredentialsJson(Some(api_key), user.email,
                                                user.github_username,
                                                user.full_name, user.avatar_url))
                     /\ state' = [is_authenticated |-> TRUE,
                                  api_key |-> Some(api_key),
                                  email |-> user.email,
                                  github_username |-> user.github_username,
                                  full_name |-> user.full_name,
                                  avatar_url |-> user.avatar_url]
                     /\ Emit(SignedIn)
    /\ UNCHANGED nAuth
    /\ UNCHANGED <<driverVars, clientVars, panelVars>>

(* AuthManager::handle_success *)
HandleSuccess(url, written) ==
    IF Find(url, <<"?">>) = None
    THEN UNCHANGED <<state, credentials, emitted>>
    ELSE LET params == ParseQuery(QueryOf(url))
             api_key == Get(params, "api_key")
             email == Get(params, "email")
             github_username == Get(params, "github_username")
         IN  IF api_key = None
             THEN UNCHANGED <<state, credentials, emitted>>
             ELSE /\ credentials' =
                         SaveCredentials(credentials, written,
                             CredentialsJson(Some(api_key[1]), email,
                                             github_username, None, None))
                  /\ state' = [state EXCEPT !.is_authenticated = TRUE,
                                            !.api_key = api_key,
                                            !.email = email,
                                            !.github_username = github_username]
                  /\ Emit(SignedIn)

(* A handle_error that also drops the session it could not renew. *)
HandleErrorSignsOut(url) ==
    /\ IF Find(url, <<"?">>) = None
       THEN UNCHANGED emitted
       ELSE Emit(AuthError(<<"Sign in failed: ", "unknown", " - ", "">>))
    /\ state' = AuthStateDefault
    /\ UNCHANGED credentials

(* AuthManager::handle_error *)
HandleError(url) ==
    /\ IF Find(url, <<"?">>) = None
       THEN UNCHANGED emitted
       ELSE LET params == ParseQuery(QueryOf(url))
                error == IF Get(params, "error") = None THEN "unknown"
                         ELSE Get(params, "error")[1]
                description == IF Get(params, "description") = None THEN ""
                               ELSE Get(params, "description")[1]
            IN  Emit(AuthError(<<"Sign in failed: ", error, " - ", description>>))
    /\ UNCHANGED <<state, credentials>>

(* AuthManager::handle_callback *)
HandleCallback(url, written) ==
    /\ nAuth < MaxAuth
    /\ nAuth' = nAuth + 1
    /\ IF StartsWith(url, OAUTH_CALLBACK_SCHEME \o << <<"auth/success">> >>)
       THEN HandleSuccess(url, written)
       ELSE IF StartsWith(url, OAUTH_CALLBACK_SCHEME \o << <<"auth/error">> >>)
       THEN HandleError(url)
       ELSE UNCHANGED <<state, credentials, emitted>>
    /\ UNCHANGED signIns
    /\ UNCHANGED <<driverVars, clientVars, panelVars>>

(* A sign_out that resets the profile and the flag and keeps the key. *)
SignOutKeepsKey(removed) ==
    /\ nAuth < MaxAuth
    /\ nAuth' = nAuth + 1
    /\ credentials' = IF removed THEN NoFile ELSE credentials
    /\ state' = [AuthStateDefault EXCEPT !.api_key = state.api_key]
    /\ Emit(SignedOut)
    /\ UNCHANGED signIns
    /\ UNCHANGED <<driverVars, clientVars, panelVars>>

(* AuthManager::sign_out: remove_file(..).ok() removes the file or fails  *)
(* in silence.                                                            *)
SignOut(removed) ==
    /\ nAuth < MaxAuth
    /\ nAuth' = nAuth + 1
    /\ credentials' = IF removed THEN NoFile ELSE credentials
    /\ state' = AuthStateDefault
    /\ Emit(SignedOut)
    /\ UNCHANGED signIns
    /\ UNCHANGED <<driverVars, clientVars, panelVars>>

(* The files the AuthManager can find at its first start: none, one       *)
(* without an api_key string, one written by an earlier sign-in.          *)
StoredCredentials ==
    { NoFile,
      File(CredentialsJson(None, Some("e0"), None, None, None)),
      File(CredentialsJson(Some("k0"), Some("e0"), None, Some("f0"), None)) }

(* The state right after AuthManager::init at the first start. *)
AuthStart ==
    /\ Spawned /\ rec = TRUE /\ ClientNew /\ PanelNew /\ credFile = NoToken
    /\ credentials \in StoredCredentials
    /\ state = LoadCredentials(AuthStateDefault, credentials)
    /\ signIns = 0
    /\ emitted = <<>>
    /\ nAuth = 0

AuthNext ==
    \/ AuthInit
    \/ \E opened \in BOOLEAN : SignIn(opened)
    \/ \E access_code \in AccessCodes : SignInWithAccessCode(access_code)
    \/ \E response \in Responses, written \in BOOLEAN :
            AccessCodeDone(response, written)
    \/ \E url \in CallbackUrls, written \in BOOLEAN : HandleCallback(url, written)
    \/ \E removed \in BOOLEAN : SignOut(removed)

(* The AuthManager alone, from its first start. *)
AuthSpec == AuthStart /\ [][AuthNext]_vars

----------------------------------------------------------------------------
(* What the histories say. *)

IsPingFrame(f) == f.type = "ping"

IsMarkReadFrame(f) == f.type = "mark_read"

PingCount == Len(SelectSeq(wire, IsPingFrame))

(* The queued messages written so far, and the frames of every message    *)
(* the queue accepted, both in order.                                     *)
SentMsgs == SelectSeq(wire, IsMarkReadFrame)

EnqLog == [k \in 1..nEnq |-> Serialize(MarkRead(ToString(k)))]

(* The frames of the messages not yet written: the one in tx.send(), then *)
(* the queue.                                                             *)
Pending ==
    (IF pc = "send_msg" THEN <<cur>> ELSE <<>>)
        \o [k \in 1..Len(outq) |-> Serialize(outq[k])]

(* The items the receiver loop has read: those forwarded and no longer   *)
(* in the channel.                                                        *)
Got == SubSeq(fwd, 1, Len(fwd) - Len(chan))

(* This step of the receiver loop takes an item off the channel. *)
ReceiverReads ==
    consumer = "held" /\ chan # <<>> /\ chan' = Tail(chan) /\ consumer' # "dropped"

(* This step takes a frame from the socket. *)
TakesFrame == turn' # turn

IsMalformedText(f) == f.opcode = "Text" /\ f.utf8 /\ ~Decode(f).ok

IsForwardable(f) ==
    f.opcode = "Text" /\ f.utf8 /\ Decode(f).ok /\ Decode(f).msg.tag # "Pong"

----------------------------------------------------------------------------
(* C1. With the consumer holding the stream, the driver answers a text    *)
(* frame that does not decode by putting an Err item on the channel and   *)
(* going round the loop again; a well-formed frame it takes after such a  *)
(* frame is decoded and put on the channel; and the receiver loop stays   *)
(* in its loop whatever item it reads, an Err item included.              *)
C1_MalformedKeepsStream ==
    /\ [][(TakesFrame /\ IsMalformedText(Head(inflight)) /\ consumer = "held")
            => (pc' = "select" /\ fwd' = Append(fwd, ErrItem)
                /\ chan' = Append(chan, ErrItem))]_vars
    /\ [][(TakesFrame /\ IsForwardable(Head(inflight)) /\ consumer = "held"
            /\ \E k \in 1..Len(fwd) : ~fwd[k].ok)
            => (pc' = "select"
                /\ fwd' = Append(fwd, OkItem(Decode(Head(inflight)).msg))
                /\ chan' = Append(chan, OkItem(Decode(Head(inflight)).msg)))]_vars
    /\ [][ReceiverReads => consumer' = "held"]_vars

(* The receiver loop has read an Err item and, after it, a message.       *)
C1_Witness ==
    /\ consumer = "held"
    /\ \E i \in 1..Len(Got) : \E j \in 1..Len(Got) : i < j /\ ~Got[i].ok /\ Got[j].ok

(* C2. Taking a text frame that does not decode never ends the loop,      *)
(* with or without a consumer on the stream.                              *)
C2_DecodeFailureNeverTerminates ==
    [][(TakesFrame /\ IsMalformedText(Head(inflight))) => pc' = "select"]_vars

(* C3. Once the task handle is dropped there is no driver: nothing more   *)
(* is written to the socket or put on the channel, and the stream yields  *)
(* end-of-stream as soon as it is drained.                                *)
C3_DroppedHandleCancels ==
    /\ [](~taskHandle => ~DriverAlive)
    /\ [][~taskHandle => (wire' = wire /\ fwd' = fwd /\ pc' = pc)]_vars
    /\ [](~taskHandle /\ consumer = "held" /\ chan = <<>> => ENABLED ConsumerEnd)

(* The handle was dropped with a sender alive, a queued message unsent,   *)
(* the socket open, and the consumer reached end-of-stream.               *)
C3_Witness ==
    /\ pc = "cancelled"
    /\ ~taskHandle
    /\ senders > 0
    /\ ~sockEnd
    /\ nEnq > Len(SentMsgs)
    /\ consumer = "ended"

(* C4. The driver is gone only if the task handle was dropped, or the     *)
(* last sender was dropped, or a forward found the consumer gone, or a    *)
(* send failed, or a Close frame or the end of the socket was read.       *)
C4_NoSpuriousExit ==
    /\ pc = "cancelled" => ~taskHandle
    /\ pc = "done" =>
        \/ exit = "senders_dropped" /\ senders = 0
        \/ exit = "consumer_gone" /\ consumer = "dropped"
        \/ exit = "socket_ended" /\ sockEnd
        \/ exit \in {"ping_send_failed", "msg_send_failed", "close"}
    /\ DriverAlive => exit = "running"

(* The driver is still in its loop after a ping, a queued message, a      *)
(* malformed frame and every frame of the run, all peers still there.     *)
C4_Witness ==
    /\ pc = "select"
    /\ taskHandle /\ senders > 0 /\ consumer = "held" /\ ~sockEnd
    /\ PingCount >= 1
    /\ Len(SentMsgs) >= 1
    /\ nArr = MaxFrames /\ inflight = <<>>
    /\ \E k \in 1..Len(fwd) : ~fwd[k].ok

(* C5. Taking a Close frame ends the loop and forwards nothing; the       *)
(* consumer reaches end-of-stream only after it has read every item       *)
(* forwarded before, and can reach it once the channel is drained.        *)
C5_CloseTerminates ==
    /\ [][(TakesFrame /\ Head(inflight).opcode = "Close")
            => (pc' = "done" /\ exit' = "close" /\ fwd' = fwd /\ chan' = chan)]_vars
    /\ [](consumer = "ended" => (~DriverAlive /\ chan = <<>> /\ Got = fwd))
    /\ [](exit = "close" /\ consumer = "held" /\ chan = <<>> => ENABLED ConsumerEnd)

(* A message was forwarded, then a Close was read, and the consumer read  *)
(* the message and then end-of-stream.                                    *)
C5_Witness == exit = "close" /\ consumer = "ended" /\ Len(Got) >= 1

(* C6. When the loop ends because every sender was dropped, every message *)
(* the queue ever accepted has been written, in the order queued,         *)
(* including those still queued when the last sender went.                *)
C6_FlushBeforeExit ==
    exit = "senders_dropped" =>
        /\ senders = 0
        /\ SentMsgs = EnqLog
        /\ Len(SentMsgs) >= qAtDrop

(* The last sender was dropped with two messages unwritten, the consumer  *)
(* still there, and the loop ended on the drained queue.                  *)
C6_Witness == exit = "senders_dropped" /\ qAtDrop >= 2 /\ consumer = "held"

(* Written, being written and queued make up exactly what was accepted.  *)
AllAccounted == rec /\ DriverAlive => SentMsgs \o Pending = EnqLog

(* C7. The messages written, then the one being written, then the queue,  *)
(* are exactly the messages accepted, in the order accepted: none lost,   *)
(* duplicated or reordered; and, for as long as the driver lives, every   *)
(* accepted message ends up written.                                      *)
C7_FifoEventually ==
    /\ []AllAccounted
    /\ [](rec => Len(SentMsgs) <= nEnq /\ SentMsgs = SubSeq(EnqLog, 1, Len(SentMsgs)))
    /\ <>[](rec /\ DriverAlive => SentMsgs = EnqLog)

(* Two messages were queued before the driver took either, and both have  *)
(* been written.                                                          *)
C7_Witness == rec /\ DriverAlive /\ Len(SentMsgs) >= 2 /\ qAtDrop >= 2

(* C8. A sender can always queue: the call is enabled in every state with *)
(* a sender, wherever the driver is, and it appends to the queue in one   *)
(* step that moves neither the driver nor the socket.                     *)
C8_EnqueueNeverBlocks ==
    /\ [](senders > 0 /\ EnqueueInBounds => ENABLED Enqueue)
    /\ [][nEnq' # nEnq => (outq' = Append(outq, NextMessage) /\ pc' = pc
                           /\ wire' = wire /\ cur' = cur)]_vars

(* A message was queued behind another while a socket write is pending.   *)
C8_Witness == pc = "send_msg" /\ Len(outq) >= 1 /\ nEnq >= 2

(* C9. No source is starved: a readable frame is taken, a queued message  *)
(* is handed to the socket, and an expired timer is serviced, each        *)
(* eventually, unless the driver ends first.                              *)
C9_NoStarvation ==
    /\ \A b \in BOOLEAN :
        (DriverAlive /\ inflight # <<>> /\ turn = b) ~> (turn # b \/ ~DriverAlive)
    /\ (DriverAlive /\ outq # <<>>) ~> (pc = "send_msg" \/ ~DriverAlive)
    /\ (DriverAlive /\ TimerReady) ~> (pc = "send_ping" \/ ~DriverAlive)

(* C10. No ping is written before the timer's 30 seconds have passed, at  *)
(* most one per 30 seconds, and once the expired timer has been serviced  *)
(* one has been written.                                                  *)
C10_KeepalivePing ==
    /\ PingCount * KEEPALIVE_INTERVAL <= now
    /\ (DriverAlive /\ pc # "send_ping" /\ now >= KEEPALIVE_INTERVAL /\ ~TimerReady)
        => PingCount >= 1
    /\ \A k \in 1..Len(wire) : IsPingFrame(wire[k]) => wire[k] = [type |-> "ping"]

(* 30 idle seconds: nothing queued, nothing received, one ping written.   *)
C10_Witness ==
    /\ pc = "select" /\ now >= KEEPALIVE_INTERVAL /\ ~TimerReady
    /\ nEnq = 0 /\ nArr = 0
    /\ wire = <<[type |-> "ping"]>>

----------------------------------------------------------------------------
(* What the panel shows. *)

ListIds(list) == {list[k].id : k \in 1..Len(list)}

NoDuplicateIds(list) ==
    \A i \in 1..Len(list) : \A j \in 1..Len(list) : i # j => list[i].id # list[j].id

(* The notification items an item of the stream carries, in order. *)
ItemNotifs(item) ==
    IF ~item.ok THEN <<>>
    ELSE IF item.msg.tag = "UnreadNotifications" THEN item.msg.notifications
    ELSE IF item.msg.tag = "Notification" THEN <<item.msg.data>>
    ELSE <<>>

(* This step is the receiver loop of `who` taking an item off its stream. *)
LoopReads(who) ==
    /\ loop[who] = "running" /\ loop'[who] = "running"
    /\ stream[who] # <<>> /\ stream'[who] = Tail(stream[who])
    /\ attempt' = attempt

(* C11. The panel's list never holds an id twice; every id a receiver     *)
(* loop reads, in an event or in a batch, is in the list afterwards; and  *)
(* no id ever leaves the list. So each id read is there exactly once.     *)
C11_EachIdOnce ==
    /\ [](NoDuplicateIds(witchcraft_notifications))
    /\ [][\A who \in Origins : LoopReads(who) =>
            ListIds(ItemNotifs(Head(stream[who])))
                \subseteq ListIds(witchcraft_notifications')]_vars
    /\ [][ListIds(witchcraft_notifications)
            \subseteq ListIds(witchcraft_notifications')]_vars

(* Both receiver loops run, every delivery has been read, none of them    *)
(* was a Connected message, and the list holds "a" once, as the batch     *)
(* that carried it twice gave it: the other delivery repeated the id.    *)
C11_Witness ==
    /\ loop["auto"] = "running" /\ loop["click"] = "running"
    /\ nDeliver = MaxDeliver
    /\ stream["auto"] = <<>> /\ stream["click"] = <<>>
    /\ ~witchcraft_connected
    /\ ListIds(witchcraft_notifications) = {"a"}
    /\ Len(witchcraft_notifications) = 1
    /\ witchcraft_notifications[1].title = "T"

(* This step is a call of connect() that gave its caller something new.   *)
ConnectReturns == connectResult' # connectResult

(* C12. connect() with an access code cached never waits for the lock on  *)
(* the slot: it returns a connect task, and that task dials with the      *)
(* cached code.                                                           *)
C12_ConnectUsesCachedToken ==
    /\ [](connectResult # "blocked")
    /\ [][(token # NoToken /\ ConnectReturns)
            => (connectResult' = "task" /\ attempt'["api"] = Dial(token))]_vars

(* C13. connect() with nothing cached returns the no-credential error in  *)
(* the same step: no connect task is started for any caller, no driver    *)
(* appears, and the slot stays empty.                                     *)
C13_NoCredentialFails ==
    /\ [][(token = NoToken /\ ConnectReturns)
            => (/\ connectResult' = "no_credential"
                /\ attempt' = attempt
                /\ called' = called
                /\ driver' = driver
                /\ token' = NoToken)]_vars
    /\ [](connectResult = "no_credential" => attempt["api"] = NoAttempt)

(* connect() was called on a client nobody gave an access code. *)
C13_Witness ==
    /\ connectResult = "no_credential"
    /\ token = NoToken
    /\ \A who \in Callers : attempt[who] = NoAttempt

(* C14. The slot holds nothing or one access code. Each call of           *)
(* connect_with_access_code leaves in it the code it was called with      *)
(* (the panel passes the one in the credentials file), whatever was       *)
(* there before, and nothing but such a call changes the slot: the slot   *)
(* always holds the code of the last call.                                *)
C14_LastWriterWins ==
    /\ [](token \in {NoToken} \cup Tokens)
    /\ [][called' # called => token' = credFile]_vars
    /\ [][token' # token => called' # called]_vars

(* Auto-connect cached "t1", a later call replaced it by "t2". *)
C14_Witness == attempt["auto"].tok = "t1" /\ token = "t2"

(* C15. A connect task that resolved to an error is handed to its caller  *)
(* as a failure and stays one: no driver is spawned for it and it is      *)
(* never dialed again; an attempt starts dialing only in a step that is   *)
(* a call of connect_with_access_code.                                    *)
C15_HandshakeFailureIsFinal ==
    /\ [][\A who \in Origins :
            attempt[who].st = "resolved_err"
                => (/\ attempt'[who].st \in {"resolved_err", "failed"}
                    /\ (driver'[who] = "running" => driver[who] = "running")
                    /\ loop'[who] = loop[who])]_vars
    /\ [][\A who \in Callers :
            (attempt'[who].st = "dialing" /\ attempt[who].st # "dialing")
                => called' # called]_vars
    /\ [][\A who \in Origins :
            attempt[who].st = "failed" => attempt'[who].st \in {"failed", "dialing"}]_vars

(* Auto-connect failed: its caller was told, the loading flag is cleared, *)
(* and the panel holds no driver, sender or receiver loop.                *)
C15_Witness ==
    /\ attempt["auto"].st = "failed"
    /\ driver["auto"] = "none" /\ loop["auto"] = "none"
    /\ witchcraft_handler_task = "None" /\ witchcraft_sender = "None"
    /\ ~witchcraft_connecting

IsNonUtf8Text(f) == f.opcode = "Text" /\ ~f.utf8

C17_TerminationAbsorbing ==
    /\ [][exit # "running"
            => (/\ pc' = pc /\ exit' = exit
                /\ wire' = wire /\ cur' = cur /\ fwd' = fwd
                /\ outq' = outq /\ inflight' = inflight /\ deadline' = deadline
                /\ (chan' = chan \/ chan' = Tail(chan) \/ chan' = <<>>))]_vars
    /\ [](exit # "running" => (~DriverAlive /\ cur = NoFrame /\ outq = <<>>))

(* The loop ended on a failed ping with the timer due again, a sender     *)
(* alive, the socket open and the consumer reading: everything the loop   *)
(* would act on, and no loop.                                             *)
C17_Witness ==
    /\ exit = "ping_send_failed"
    /\ TimerReady /\ senders > 0 /\ ~sockEnd /\ consumer = "held" /\ taskHandle

(* The stream still holds exactly the newest items forwarded. *)
ChanIsTailOfFwd ==
    Len(chan) <= Len(fwd) /\ chan = SubSeq(fwd, Len(fwd) - Len(chan) + 1, Len(fwd))

(* C18. The step that ends the driver puts nothing on the stream, no      *)
(* error item either. What is unread stays readable, oldest first, after  *)
(* the driver is gone: the stream yields end-of-stream only once it is    *)
(* drained, and then it can; so the consumer has read every item          *)
(* forwarded, in order, when it sees the end.                             *)
C18_DrainThenEnd ==
    /\ [][exit' # exit => (fwd' = fwd /\ chan' = chan)]_vars
    /\ [](consumer = "held" => ChanIsTailOfFwd)
    /\ [][(consumer = "held" /\ consumer' = "held" /\ chan' # chan /\ fwd' = fwd)
            => (chan # <<>> /\ chan' = Tail(chan))]_vars
    /\ [](consumer = "ended" => (~DriverAlive /\ chan = <<>>))
    /\ [][consumer' = "ended" /\ consumer # "ended" => (chan = <<>> /\ chan' = <<>>)]_vars
    /\ [](~DriverAlive /\ consumer = "held" =>
            IF chan = <<>> THEN ENABLED ConsumerEnd ELSE ENABLED ConsumerRecv)

(* Two different messages were forwarded, every sender was dropped, and   *)
(* the consumer read both and then the end of the stream.                 *)
C18_Witness ==
    /\ exit = "senders_dropped" /\ consumer = "ended"
    /\ Len(fwd) = 2 /\ fwd[1].ok /\ fwd[2].ok /\ fwd[1] # fwd[2]

IsDecodable(f) == f.opcode = "Text" /\ f.utf8 /\ Decode(f).ok

(* C19, as claimed. With the consumer on the stream, every text frame     *)
(* that decodes, a heartbeat included, is put on the channel when the     *)
(* driver takes it.                                                       *)
C19_EveryDecodedForwarded ==
    [][(TakesFrame /\ IsDecodable(Head(inflight)) /\ consumer = "held")
        => fwd' = Append(fwd, OkItem(Decode(Head(inflight)).msg))]_vars

(* C19, amended. A text frame that decodes to anything but Pong is put on *)
(* the channel once, in the step that takes it, when the consumer holds   *)
(* the stream, and ends the loop unforwarded when the consumer is gone;   *)
(* one that decodes to Pong is dropped and the loop goes on; and the      *)
(* channel gets an item in no other step, one item at a time.             *)
C19_DecodedForwardedOnceButPong ==
    /\ [][(TakesFrame /\ IsDecodable(Head(inflight)))
            => LET msg == Decode(Head(inflight)).msg IN
               IF msg.tag = "Pong"
               THEN fwd' = fwd /\ chan' = chan /\ pc' = "select"
               ELSE IF consumer = "held"
               THEN /\ fwd' = Append(fwd, OkItem(msg))
                    /\ chan' = Append(chan, OkItem(msg))
                    /\ pc' = "select"
               ELSE fwd' = fwd /\ chan' = chan /\ pc' = "done"]_vars
    /\ [][fwd' # fwd => (TakesFrame /\ Len(fwd') = Len(fwd) + 1
                          /\ fwd = SubSeq(fwd', 1, Len(fwd)))]_vars
    /\ [](Len(fwd) <= nArr)

(* A connected frame and a notification event arrived, each is on the    *)
(* history of the channel once, and the consumer has read both.           *)
C19_Witness ==
    /\ nArr = 2 /\ inflight = <<>> /\ pc = "select"
    /\ fwd = <<OkItem(Decode(TextFrame(ConnectedJson)).msg),
               OkItem(Decode(TextFrame(NotificationJson)).msg)>>
    /\ consumer = "held" /\ chan = <<>>

(* The messages of the peer in the order it sends them (NextMessages).    *)
PeerOrder ==
    <<OkItem(Decode(TextFrame(ConnectedJson)).msg),
      OkItem(Decode(TextFrame(NotificationJson)).msg),
      OkItem(Decode(TextFrame(UnreadJson(<<NotifJson("abc")>>))).msg)>>

PeerRank(item) == CHOOSE k \in 1..Len(PeerOrder) : PeerOrder[k] = item

(* What the frame puts on the channel when it is one that puts anything.  *)
ItemOfFrame(f) == IF Decode(f).ok THEN OkItem(Decode(f).msg) ELSE ErrItem

(* C20. The driver reads one frame at a time and puts the item of the     *)
(* frame it has just read at the tail of the channel; the consumer takes  *)
(* the head; so what the stream has yielded, then what is unread, is what *)
(* was forwarded, in the order the frames were read, and the messages of  *)
(* the peer come out in the order the peer sent them. Outbound, what was  *)
(* written is a prefix of what was accepted.                              *)
C20_StreamKeepsArrivalOrder ==
    /\ [](Len(inflight) <= 1)
    /\ [][(TakesFrame /\ fwd' # fwd)
            => /\ fwd' = Append(fwd, ItemOfFrame(Head(inflight)))
               /\ chan' = Append(chan, ItemOfFrame(Head(inflight)))]_vars
    /\ [][ReceiverReads => (Got' = Append(Got, Head(chan)) /\ fwd' = fwd)]_vars
    /\ [](consumer = "held" => Got \o chan = fwd)
    /\ [](\A i, j \in 1..Len(fwd) :
            (i < j /\ fwd[i].ok /\ fwd[j].ok) => PeerRank(fwd[i]) < PeerRank(fwd[j]))
    /\ [](rec => SentMsgs = SubSeq(EnqLog, 1, Len(SentMsgs)))

(* The greeting and then an event were forwarded; the consumer has read   *)
(* the greeting, and the event is the next item of the stream.            *)
C20_Witness ==
    /\ consumer = "held" /\ Len(fwd) = 2
    /\ Got = <<PeerOrder[1]>> /\ chan = <<PeerOrder[2]>>

----------------------------------------------------------------------------
MarkReadFrameOf(id) == [type |-> "mark_read", notificationId |-> id]

PingFrame == [type |-> "ping"]

(* C22. MarkRead with id x serializes to {"type":"mark_read",             *)
(* "notificationId":"x"} and Ping to {"type":"ping"}; every frame written *)
(* is one of the two; the k-th mark_read frame written is the frame of    *)
(* the k-th message accepted; and a completed send writes one frame, the  *)
(* one serialized when the message was taken.                             *)
C22_OutboundFrames ==
    /\ [](\A k \in 1..Len(outq) :
            Serialize(outq[k]) = MarkReadFrameOf(outq[k].notification_id))
    /\ [](Serialize(Ping) = PingFrame)
    /\ [](\A k \in 1..Len(wire) :
            wire[k] = PingFrame \/ \E n \in 1..nEnq : wire[k] = MarkReadFrameOf(ToString(n)))
    /\ [](\A k \in 1..Len(SentMsgs) : SentMsgs[k] = MarkReadFrameOf(ToString(k)))
    /\ [](Len(wire) = PingCount + Len(SentMsgs) /\ Len(SentMsgs) <= nEnq)
    /\ [][wire' # wire => wire' = Append(wire, cur)]_vars
    /\ [][(pc = "select" /\ pc' = "send_msg")
            => cur' = MarkReadFrameOf(Head(outq).notification_id)]_vars

(* Both queued messages and a ping have been written. *)
C22_Witness ==
    /\ PingCount = 1
    /\ SentMsgs = <<MarkReadFrameOf("1"), MarkReadFrameOf("2")>>

(* The variant each discriminator names. *)
VariantOf(type) ==
    CASE type = "connected" -> "Connected"
      [] type = "unread_notifications" -> "UnreadNotifications"
      [] type = "notification" -> "Notification"
      [] type = "pong" -> "Pong"

(* The frame of the scenario and the event the consumer is to observe.    *)
ScenarioFrame ==
    TextFrame([type |-> "connected", userId |-> "u1", timestamp |-> "t",
               method |-> "realtime"])

ScenarioEvent ==
    OkItem([tag |-> "Connected", user_id |-> "u1", timestamp |-> "t",
            method |-> "realtime"])

IsConnectedItem(item) == item.ok /\ item.msg.tag = "Connected"

(* C23. The connected frame of the scenario decodes to Connected with     *)
(* user_id "u1"; the driver that takes it with the consumer on the stream *)
(* puts that one event on the channel, so the consumer is handed it once; *)
(* and whatever frame decodes, its "type" names the variant.              *)
C23_ConnectedObserved ==
    /\ [](Decode(ScenarioFrame).ok /\ OkItem(Decode(ScenarioFrame).msg) = ScenarioEvent)
    /\ [][(TakesFrame /\ Head(inflight) = ScenarioFrame /\ consumer = "held")
            => (chan' = Append(chan, ScenarioEvent) /\ fwd' = Append(fwd, ScenarioEvent))]_vars
    /\ [](Len(SelectSeq(fwd, IsConnectedItem)) <= 1)
    /\ [](\A k \in 1..Len(fwd) : IsConnectedItem(fwd[k]) => fwd[k] = ScenarioEvent)
    /\ [](inflight # <<>> /\ IsDecodable(Head(inflight))
            => Decode(Head(inflight)).msg.tag = VariantOf(Head(inflight).json.type))

(* The consumer has read the Connected event and nothing else.            *)
C23_Witness == consumer = "held" /\ Got = <<ScenarioEvent>> /\ chan = <<>> /\ nArr = 1

SendFailures == {"ping_send_failed", "msg_send_failed"}

(* C24. A tx.send() that resolves without its frame written ends the loop *)
(* in that step, for a ping and for a queued message alike; the frame is  *)
(* discarded with what was queued behind it; and from then on nothing is  *)
(* written to the socket or put on the channel, and the driver stays      *)
(* where it is.                                                           *)
C24_SendFailureIsFatal ==
    /\ [][(pc \in {"send_ping", "send_msg"} /\ pc' # pc /\ wire' = wire /\ taskHandle')
            => (pc' = "done"
                /\ exit' = (IF pc = "send_ping" THEN "ping_send_failed"
                            ELSE "msg_send_failed")
                /\ fwd' = fwd /\ chan' = chan
                /\ cur' = NoFrame /\ outq' = <<>> /\ inflight' = <<>>)]_vars
    /\ [](pc = "send_ping" => ENABLED SendPingDone(FALSE))
    /\ [](pc = "send_msg" => ENABLED SendMsgDone(FALSE))
    /\ [][(exit \in SendFailures)
            => (pc' = "done" /\ exit' = exit /\ wire' = wire /\ fwd' = fwd
                /\ Len(chan') <= Len(chan) /\ cur' = NoFrame)]_vars

(* The send of the first queued message failed with the second queued     *)
(* behind it, a sender and the consumer still there: neither was written. *)
C24_Witness ==
    /\ exit = "msg_send_failed" /\ pc = "done"
    /\ nEnq = 2 /\ SentMsgs = <<>>
    /\ senders > 0 /\ consumer = "held" /\ ~sockEnd

(* C25. The driver that takes a frame decoding to a message it forwards,  *)
(* with the stream dropped, leaves its loop in that step on the failed    *)
(* unbounded_send: nothing is put on the channel, what was queued for the *)
(* socket is discarded, and nothing is written to the socket afterwards.  *)
C25_ConsumerGoneIsFatal ==
    /\ [][(TakesFrame /\ IsForwardable(Head(inflight)) /\ consumer # "held")
            => (pc' = "done" /\ exit' = "consumer_gone"
                /\ wire' = wire /\ fwd' = fwd /\ chan' = chan
                /\ outq' = <<>> /\ cur' = NoFrame)]_vars
    /\ [](exit = "consumer_gone" => (pc = "done" /\ consumer = "dropped"))
    /\ [][exit = "consumer_gone" => (wire' = wire /\ pc' = pc /\ exit' = exit)]_vars

(* A message was forwarded and one written, the stream was dropped, and  *)
(* the next message to arrive ended the driver, a sender still alive and  *)
(* the socket open.                                                       *)
C25_Witness ==
    /\ exit = "consumer_gone" /\ senders > 0 /\ ~sockEnd
    /\ Len(fwd) = 1 /\ nArr = 2 /\ Len(SentMsgs) >= 1

(* C26, as claimed. The driver waits nowhere but at the select: whatever  *)
(* a socket write is doing, an expired timer is serviced, and a readable  *)
(* frame is taken when neither the timer nor the queue is ready.          *)
C26_OnlySelectBlocks ==
    /\ (DriverAlive /\ TimerReady /\ pc # "send_ping") => ENABLED TimerBranch
    /\ (DriverAlive /\ ~TimerReady /\ ~OutgoingReady /\ InboundReady)
            => ENABLED InboundBranch

IsTransportFrame(f) == f.opcode \notin {"Text", "Close"}

(* C28. Taking a transport Ping or Pong frame, or a frame of any opcode   *)
(* but Text and Close, changes nothing but the driver's place in the      *)
(* socket: nothing is put on the channel, nothing is handed to the socket *)
(* or written, the timer keeps its deadline, and the loop is back at the  *)
(* select, whether or not the consumer is there.                          *)
C28_TransportFramesIgnored ==
    [][(TakesFrame /\ IsTransportFrame(Head(inflight)))
        => (/\ pc' = "select" /\ exit' = "running"
            /\ fwd' = fwd /\ chan' = chan
            /\ wire' = wire /\ cur' = cur /\ outq' = outq
            /\ deadline' = deadline
            /\ inflight' = Tail(inflight))]_vars

(* A transport Pong is the next frame the select takes, after a Connected *)
(* message was forwarded and with the timer running.                      *)
C28_Witness ==
    /\ inflight = <<WsPongFrame>> /\ ENABLED InboundBranch
    /\ Len(fwd) = 1 /\ consumer = "held" /\ now > 0

C30_TimerIgnoresTraffic ==
    /\ [][deadline' # deadline
            => (/\ pc = "send_ping" /\ pc' = "select"
                /\ cur = PingFrame
                /\ (rec => wire' = Append(wire, PingFrame))
                /\ deadline' = now + KEEPALIVE_INTERVAL)]_vars
    /\ [][(pc = "send_msg" \/ pc' = "send_msg" \/ TakesFrame
            \/ outq' # outq \/ inflight' # inflight) => deadline' = deadline]_vars
    /\ [](pc = "select" /\ TimerReady
            => (ENABLED TimerBranch /\ ~ENABLED OutgoingBranch /\ ~ENABLED InboundBranch))
    /\ ((DriverAlive /\ TimerReady) ~> (pc = "send_ping" \/ ~DriverAlive))

(* A busy stretch: every queued message written, every frame taken, one   *)
(* ping written, and the timer re-armed 30 seconds from that write.       *)
C30_Witness ==
    /\ rec /\ DriverAlive /\ pc = "select"
    /\ PingCount = 1 /\ Len(SentMsgs) = MaxEnq
    /\ nArr = MaxFrames /\ inflight = <<>>
    /\ deadline >= 2 * KEEPALIVE_INTERVAL

(* C31. At the select an expired timer is the one branch that runs; with  *)
(* the timer pending, a queued message or the drop of the last sender is  *)
(* the one branch that runs; a frame or the end of the socket is acted on *)
(* only when neither is ready. The branch that runs handles its one       *)
(* event and leaves the other two sources as they were.                   *)
C31_FixedPriority ==
    /\ [](pc = "select" /\ TimerReady
            => (ENABLED TimerBranch /\ ~ENABLED OutgoingBranch /\ ~ENABLED InboundBranch))
    /\ [](pc = "select" /\ ~TimerReady /\ OutgoingReady
            => (ENABLED OutgoingBranch /\ ~ENABLED TimerBranch /\ ~ENABLED InboundBranch))
    /\ [][(pc = "select" /\ pc' = "send_ping")
            => (TimerReady /\ outq' = outq /\ inflight' = inflight /\ ~TakesFrame)]_vars
    /\ [][(pc = "select" /\ pc' = "send_msg")
            => (~TimerReady /\ outq' = Tail(outq) /\ inflight' = inflight
                /\ ~TakesFrame /\ deadline' = deadline)]_vars
    /\ [][TakesFrame
            => (pc = "select" /\ ~TimerReady /\ ~OutgoingReady
                /\ outq' = outq /\ deadline' = deadline /\ cur' = cur)]_vars
    /\ [][(exit = "running" /\ exit' \in {"close", "socket_ended"})
            => (pc = "select" /\ ~TimerReady /\ outq = <<>> /\ senders > 0)]_vars
    /\ [][(exit = "running" /\ exit' = "senders_dropped")
            => (pc = "select" /\ ~TimerReady)]_vars

(* The timer, a queued message and a Close frame were ready at once: the  *)
(* ping is being sent, the message is still queued and the Close unread.  *)
C31_Witness ==
    /\ pc = "send_ping" /\ outq # <<>> /\ inflight = <<CloseFrame>>

(* The access codes of the attempts started so far. *)
CodesDialed == {attempt[w].tok : w \in {x \in Callers : attempt[x].st # "none"}}

(* C32. The slot is written in the call that spawns the connect task, so  *)
(* before the handshake: an attempt that exists finds its code, or that   *)
(* of a later call, in the slot. The step in which a handshake resolves,  *)
(* failure included, leaves the slot alone, as does the panel's handling  *)
(* of the outcome; and a slot once set is never empty again.              *)
C32_SlotNeverCleared ==
    /\ [][token' # token
            => (called' # called
                /\ \E w \in Callers : attempt'[w] = Dial(token') /\ attempt[w].st # "dialing")]_vars
    /\ [](\A w \in Callers : attempt[w].st # "none" => token \in CodesDialed)
    /\ [][(\E w \in Callers : attempt[w].st = "dialing" /\ attempt'[w].st # "dialing")
            => token' = token]_vars
    /\ [][(\E w \in Callers : attempt[w].st = "resolved_err" /\ attempt'[w].st = "failed")
            => token' = token]_vars
    /\ [][token # NoToken => token' # NoToken]_vars

(* The handshake of the auto-connect with code t1 failed, the panel has   *)
(* logged it, no other call was made, and the slot still holds t1.        *)
C32_Witness ==
    /\ attempt["auto"] = [st |-> "failed", tok |-> "t1"]
    /\ attempt["click"].st = "none" /\ attempt["api"].st = "none"
    /\ token = "t1"

RunningDrivers == {w \in Origins : driver[w] = "running"}

(* C33. The panel holds one task handle, that of the connection spawned   *)
(* last: a driver that runs is the one whose handle the panel holds, so   *)
(* at most one runs; and the step that stores the handle of a new         *)
(* connection while the driver of the one before still runs cancels that  *)
(* driver.                                                                *)
C33_OneDriverAtATime ==
    /\ [](Cardinality(RunningDrivers) <= 1)
    /\ [](\A w \in Origins : driver[w] = "running" => witchcraft_handler_task = w)
    /\ [][(witchcraft_handler_task' # witchcraft_handler_task
            /\ witchcraft_handler_task \in Origins
            /\ driver[witchcraft_handler_task] = "running")
            => (/\ driver'[witchcraft_handler_task] = "cancelled"
                /\ driver'[witchcraft_handler_task'] = "running"
                /\ witchcraft_sender' = witchcraft_handler_task')]_vars

(* Auto-connect succeeded, and before its Connected message was read a    *)
(* click connected again: the first driver is cancelled, the second runs. *)
C33_Witness ==
    /\ driver = [w \in Origins |-> IF w = "auto" THEN "cancelled" ELSE "running"]
    /\ witchcraft_handler_task = "click"
    /\ ~witchcraft_connected

(* C34. The connected flag is set by a receiver loop reading a Connected  *)
(* message and by nothing else, and once set it stays set through every   *)
(* step, the end of a stream and the end of a driver included; while it   *)
(* is set the Connect button is not rendered and cannot be clicked.       *)
C34_ConnectedMonotone ==
    /\ [][witchcraft_connected => witchcraft_connected']_vars
    /\ [][(~witchcraft_connected /\ witchcraft_connected')
            => \E w \in Origins :
                /\ LoopReads(w)
                /\ Head(stream[w]).ok /\ Head(stream[w]).msg.tag = "Connected"]_vars
    /\ [][(\E w \in Origins :
                /\ LoopReads(w) /\ ~witchcraft_connected
                /\ Head(stream[w]).ok /\ Head(stream[w]).msg.tag = "Connected")
            => witchcraft_connected']_vars
    /\ [](witchcraft_connected => (~show_witchcraft_connect /\ ~ENABLED ClickConnect))

(* The panel read Connected, then its driver stopped and its receiver     *)
(* loop ended on the drained stream: no driver runs, the flag is still    *)
(* set and the button is not there.                                       *)
C34_Witness ==
    /\ witchcraft_connected
    /\ loop["auto"] = "ended" /\ driver["auto"] = "stopped"
    /\ RunningDrivers = {}
    /\ ~show_witchcraft_connect

(* C35. The loading flag is raised only by the auto-connect closure, and  *)
(* only when it read an access code and started the connection with it;   *)
(* the panel's handling of the task's outcome, success or failure, lowers *)
(* it, so it is set only while the auto-connect attempt is dialing or     *)
(* resolved and not yet handled; and it is never set together with the    *)
(* connected flag.                                                        *)
C35_ConnectingCleared ==
    /\ [][(~witchcraft_connecting /\ witchcraft_connecting')
            => (/\ autoPc = "deferred" /\ autoPc' = "started"
                /\ credFile # NoToken
                /\ attempt'["auto"] = Dial(credFile))]_vars
    /\ [][(autoPc = "deferred" /\ autoPc' # "deferred" /\ credFile = NoToken)
            => (~witchcraft_connecting' /\ attempt' = attempt)]_vars
    /\ [](witchcraft_connecting
            => attempt["auto"].st \in {"dialing", "resolved_ok", "resolved_err"})
    /\ [][(attempt["auto"].st \in {"resolved_ok", "resolved_err"}
            /\ attempt'["auto"].st # attempt["auto"].st)
            => ~witchcraft_connecting']_vars
    /\ [](attempt["auto"].st \in {"none", "spawned", "failed"} => ~witchcraft_connecting)
    /\ [](~(witchcraft_connecting /\ witchcraft_connected))

(* The auto-connect read a code, its handshake failed and the panel       *)
(* handled the failure: the flag is down and the button is back.          *)
C35_Witness ==
    /\ autoPc = "started" /\ attempt["auto"].st = "failed"
    /\ ~witchcraft_connecting /\ show_witchcraft_connect

(* The items of a delivery the list does not have yet, each id once, in   *)
(* the order delivered.                                                   *)
RECURSIVE Fresh(_, _)
Fresh(seen, batch) ==
    IF batch = <<>> THEN <<>>
    ELSE IF Head(batch).id \in seen THEN Fresh(seen, Tail(batch))
    ELSE <<Head(batch)>> \o Fresh(seen \cup {Head(batch).id}, Tail(batch))

IsPrefix(s, t) == Len(s) <= Len(t) /\ s = SubSeq(t, 1, Len(s))

(* C36. Every step leaves the items of the list in place, field by field, *)
(* and only adds at its end; a receiver loop that reads a delivery adds   *)
(* exactly its items with ids the list does not have, the first of each   *)
(* id, in the order delivered.                                            *)
C36_FirstWinsAppendOnly ==
    /\ [][IsPrefix(witchcraft_notifications, witchcraft_notifications')]_vars
    /\ [][\A w \in Origins :
            LoopReads(w)
                => witchcraft_notifications' =
                    witchcraft_notifications
                        \o Fresh(ListIds(witchcraft_notifications),
                                 ItemNotifs(Head(stream[w])))]_vars
    /\ [][witchcraft_notifications' # witchcraft_notifications
            => \E w \in Origins : LoopReads(w)]_vars

(* An event brought "a" under one title, then a batch brought "b" and     *)
(* "a" under another title: "a" is first and as first delivered.          *)
C36_Witness ==
    /\ witchcraft_notifications =
            <<DecodeNotif(NotifJsonTitled("a", "U")), DecodeNotif(NotifJsonTitled("b", "T"))>>
    /\ toasts = <<Toast(DecodeNotif(NotifJsonTitled("a", "U")))>>
    /\ nDeliver = 2 /\ \A w \in Origins : stream[w] = <<>>

IsEventItem(item) == item.ok /\ item.msg.tag = "Notification"

(* C37. The toasts grow only when a receiver loop reads a Notification    *)
(* event whose id the list does not have, by the toast of that event,     *)
(* and the event joins the list in the same step; reading a batch of      *)
(* unread ones, or an event whose id the list has, shows nothing. So no   *)
(* id is toasted twice, and every id toasted is in the list.              *)
C37_ToastOncePerNewEvent ==
    /\ [][toasts' # toasts
            => \E w \in Origins :
                /\ LoopReads(w) /\ IsEventItem(Head(stream[w]))
                /\ ~HasId(witchcraft_notifications, Head(stream[w]).msg.data.id)
                /\ toasts' = Append(toasts, Toast(Head(stream[w]).msg.data))
                /\ witchcraft_notifications' =
                        Append(witchcraft_notifications, Head(stream[w]).msg.data)]_vars
    /\ [][\A w \in Origins :
            (LoopReads(w) /\ ~IsEventItem(Head(stream[w]))) => toasts' = toasts]_vars
    /\ [][\A w \in Origins :
            (LoopReads(w) /\ IsEventItem(Head(stream[w]))
                /\ HasId(witchcraft_notifications, Head(stream[w]).msg.data.id))
                => toasts' = toasts]_vars
    /\ [](NoDuplicateIds(toasts))
    /\ [](ListIds(toasts) \subseteq ListIds(witchcraft_notifications))

(* An event brought "a" and was toasted; "a" was then delivered again and *)
(* read, and there is still the one toast.                                *)
C37_Witness ==
    /\ witchcraft_notifications = <<DecodeNotif(NotifJsonTitled("a", "U"))>>
    /\ toasts = <<Toast(DecodeNotif(NotifJsonTitled("a", "U")))>>
    /\ nDeliver = 2 /\ \A w \in Origins : stream[w] = <<>>
    /\ ~witchcraft_connected

(* C38. Taking a text frame whose payload is not UTF-8 moves the driver   *)
(* past the frame and changes nothing else, with the consumer there or    *)
(* gone: no item on the channel, nothing for the socket, the loop at the  *)
(* select with its queue, timer and peers as they were, so that what      *)
(* comes next is handled as if the frame had not been sent.               *)
C38_NonUtf8Ignored ==
    [][(TakesFrame /\ IsNonUtf8Text(Head(inflight)))
        => (/\ pc' = "select" /\ exit' = "running"
            /\ fwd' = fwd /\ chan' = chan
            /\ wire' = wire /\ cur' = cur /\ outq' = outq
            /\ deadline' = deadline /\ consumer' = consumer
            /\ senders' = senders /\ taskHandle' = taskHandle /\ sockEnd' = sockEnd
            /\ inflight' = Tail(inflight))]_vars

(* The stream was dropped after one item was forwarded, and a text frame  *)
(* that is not UTF-8 is the next the select takes.                        *)
C38_Witness ==
    /\ inflight = <<NonUtf8Frame>> /\ ENABLED InboundBranch
    /\ consumer = "dropped" /\ Len(fwd) = 1 /\ nArr = 2

(* C39. Whatever was loaded, signed in with an access code, called back   *)
(* or signed out, is_authenticated is true exactly when the state holds   *)
(* an api_key; and a step that emits SignedOut leaves every field of the  *)
(* state at its default.                                                  *)
C39_AuthenticatedIffKey ==
    /\ [](state.is_authenticated <=> state.api_key # None)
    /\ [][(emitted' = Append(emitted, SignedOut)) => state' = AuthStateDefault]_vars

(* A sign-in filled the state, sign_out could not remove the file, and    *)
(* the state is the default one all the same.                             *)
C39_Witness ==
    /\ Len(emitted) >= 2
    /\ emitted[Len(emitted)] = SignedOut
    /\ emitted[Len(emitted) - 1] = SignedIn
    /\ credentials # NoFile /\ credentials[1].api_key = Some("k1")
    /\ state = AuthStateDefault

(* The sign-in attempts that fail, by what comes in: an answer of the    *)
(* endpoint that is an error, a non-success status, not JSON or without   *)
(* a user id, and a callback URL that is an error callback, a success     *)
(* callback without api_key, or neither.                                  *)
FailedResponse(response) ==
    \/ response.send = "err"
    \/ response.read = "err"
    \/ ~IsSuccess(response.status)
    \/ ~response.parsed
    \/ response.user.id \in {None, Some("")}

IsSuccessUrl(url) ==
    StartsWith(url, OAUTH_CALLBACK_SCHEME \o << <<"auth/success">> >>)

FailedCallback(url) ==
    \/ ~IsSuccessUrl(url)
    \/ \A i \in 1..Len(url) : url[i] # <<"?">>
    \/ \A i \in 1..Len(url) : Len(url[i]) = 2 => url[i][1] # "api_key"

FailedSignIn ==
    \/ \E access_code \in AccessCodes :
            Trim(access_code) = <<>> /\ SignInWithAccessCode(access_code)
    \/ \E response \in Responses, written \in BOOLEAN :
            FailedResponse(response) /\ AccessCodeDone(response, written)
    \/ \E url \in CallbackUrls, written \in BOOLEAN :
            FailedCallback(url) /\ HandleCallback(url, written)

(* C40. A sign-in that fails (an empty or blank access code, a request,   *)
(* a response or a body that fails, a non-success status, no user id, an  *)
(* error callback, a success callback without api_key, a URL that is      *)
(* neither) changes no field of the state and emits nothing or one        *)
(* AuthError, never SignedIn.                                             *)
C40_FailedSignInKeepsState ==
    [][FailedSignIn
        => /\ state' = state
           /\ \/ emitted' = emitted
              \/ /\ Len(emitted') = Len(emitted) + 1
                 /\ SubSeq(emitted', 1, Len(emitted)) = emitted
                 /\ emitted'[Len(emitted')].type = "AuthError"]_vars

(* The session loaded at the start is still there after an access code    *)
(* got an answer without a user id and an error callback came in.         *)
C40_Witness ==
    /\ state = LoadCredentials(AuthStateDefault,
                               File(CredentialsJson(Some("k0"), Some("e0"), None,
                                                    Some("f0"), None)))
    /\ emitted = << AuthError(<<"Invalid response from access code endpoint">>),
                    AuthError(<<"Sign in failed: ", "denied", " - ", "">>) >>

====
